---- MODULE Spec2Model ----
(***************************************************************************)
(* Entity interpreter of the Pepper chatbot actions:                       *)
(*   chatbot/bot/actions/customer_tracking_system.py  TrackingPeople,      *)
(*                                                    TrackingGroups       *)
(*   chatbot/bot/actions/utils.py                     Utils                *)
(*   chatbot/bot/actions/actions.py                   ActionCountPeople,   *)
(*                                                    ActionCountGroups,   *)
(*                                                    ActionReset,         *)
(*                                                    ActionSubmit         *)
(*                                                                         *)
(* One run of a counting action is a sequence of steps: the action starts  *)
(* (slots restored into foi), the for loop of update reads one entity per  *)
(* step, and the step in which update returns also executes the rest of    *)
(* run (filteringJSON, result message, SlotSet events).  `entities` is     *)
(* the part of tracker.latest_message['entities'] the loop has read so     *)
(* far: the loop never looks ahead, so the next entity is drawn when it is *)
(* read.  A conversation is any sequence of runs; the slots carry the      *)
(* field map from one run to the next.                                     *)
(***************************************************************************)
EXTENDS Integers, Sequences, FiniteSets, TLC

VARIABLES
    pc,             \* "idle": between runs; "loop": inside the for loop of update
    action,         \* the action whose run is (or was last) executing
    slots,          \* tracker.current_slot_values(), the persisted field map
    foi,            \* cp.foi / cg.foi of the running instance
    entities,       \* the entities read by the loop, in arrival order
    current_group,  \* the local dict of update, as its items in insertion order
    line_flag,      \* line_flag of TrackingPeople.update, score_flag of TrackingGroups.update
    ret,            \* what update returned: None until it returns, then True or False
    sent,           \* dispatcher.utter_message calls of this run, in order
    writes,         \* history: the assignments to foi made by this run, in order
    nread,          \* history: the entities read since the conversation began
    arrival,        \* history: the keys of current_group at the arrival of each entity
    data,           \* the dataset files: data["people"] and data["groups"]
    doi,            \* doi of run: None until filteringJSON has returned it
    nop,            \* cp.nop / cg.nop of the running instance
    raised,         \* the exception that ended the run, None if it returned
    other           \* the run of a second turn, processed at the same time

vars == <<pc, action, slots, foi, entities, current_group, line_flag, ret, sent, writes,
          nread, arrival, data, doi, nop, raised, other>>

-----------------------------------------------------------------------------
(* Bounds *)

\* the entities of one conversation, over all its turns
MaxEntities == 4

\* the records of a dataset file
MaxRecords == 3

-----------------------------------------------------------------------------
(* Python values.  A field holds None, a bool, a str or a (number, flag)   *)
(* pair; values are tagged so that values of different types compare       *)
(* unequal.  A pair is a tuple inside the instance and a list in the       *)
(* tracker's slot store (events are serialised as JSON); its two           *)
(* components are values themselves.                                       *)

None == [tag |-> "None"]
Bool(b) == [tag |-> "bool", b |-> b]
Str(s) == [tag |-> "str", s |-> s]
Num(n) == [tag |-> "int", n |-> n]
True == Bool(TRUE)
False == Bool(FALSE)

\* the tuple (a, b) of two values
Pair(a, b) == [tag |-> "tuple", n |-> a, flag |-> b]

\* the tuple (n, f) and the list [n, f] of a number and a bool
Tuple(n, f) == Pair(Num(n), Bool(f))
List(n, f) == [tag |-> "list", n |-> Num(n), flag |-> Bool(f)]

\* actions.py:25-28
LINE_1 == "alpha line"
LINE_2 == "beta line"
LINE_3 == "gamma line"
LINE_4 == "delta line"

\* keys of TrackingPeople.foi and of TrackingGroups.foi
PeopleKeys == {"gender", "bag", "hat", "line1_passages", "line2_passages",
               "line3_passages", "line4_passages"}
GroupKeys == {"score"}
SlotKeys == PeopleKeys \cup GroupKeys

\* TrackingPeople.__init__ / TrackingGroups.__init__: every field None
PeopleFoi == [k \in PeopleKeys |-> None]
GroupsFoi == [k \in GroupKeys |-> None]

-----------------------------------------------------------------------------
(* The entities the NLU can deliver.  An entity is {entity: kind, value}.  *)

Ent(k, v) == [entity |-> k, value |-> v]

\* frequency adverbs, line names and marks used as entity values
PassagesTexts == {"twice", "often"}
LineTexts == {"alpha line", "Beta Line", "omega line"}
MarkTexts == {"5", "7", "high"}

PeopleEntities ==
    {Ent("negation", "not")}
    \cup {Ent("clothing", v) : v \in {"hat", "bag", "scarf"}}
    \cup {Ent("gender", v) : v \in {"male", "female"}}
    \cup {Ent("passages", v) : v \in PassagesTexts}
    \cup {Ent("line", v) : v \in LineTexts}
    \cup {Ent("mark", "5")}

GroupEntities ==
    {Ent("negation", "not")}
    \cup {Ent("mark", v) : v \in MarkTexts}
    \cup {Ent("clothing", "hat")}

-----------------------------------------------------------------------------
(* dict: the items in insertion order.  An item of current_group is        *)
(* [key, value, neg, pos]: value and neg are the pair (entity_value, neg)  *)
(* stored for passages/line/mark; for every other key only value is        *)
(* stored and neg is TRUE.  pos is history: the position in the stream of  *)
(* the entity that stored the item.                                        *)

Item(k, v, neg, pos) == [key |-> k, value |-> v, neg |-> neg, pos |-> pos]

\* key in d
Has(d, k) == \E i \in 1..Len(d) : d[i].key = k

\* d[k]
Get(d, k) == d[CHOOSE i \in 1..Len(d) : d[i].key = k]

\* d[k] = item: an existing key keeps its place, a new key goes last
Put(d, item) ==
    IF Has(d, item.key)
    THEN [i \in 1..Len(d) |-> IF d[i].key = item.key THEN item ELSE d[i]]
    ELSE Append(d, item)

\* del d[k]
Del(d, k) == SelectSeq(d, LAMBDA it : it.key # k)

\* next(reversed(d.items()))
LastItem(d) == d[Len(d)]

-----------------------------------------------------------------------------
(* utils.py.  A message is the text handed to dispatcher.utter_message:    *)
(* kind names the f-string that built it, text holds the pieces formatted  *)
(* into it, in order.  Strings are computed on: s.endswith, s.split,       *)
(* s.isdigit and int(s) are the operators below.                           *)

Msg(kind, text) == [kind |-> kind, text |-> text]

\* s.endswith(suffix)
endswith(s, suffix) ==
    /\ Len(s) >= Len(suffix)
    /\ SubSeq(s, Len(s) - Len(suffix) + 1, Len(s)) = suffix

\* sep occurs in s at index i
occurs(s, sep, i) == SubSeq(s, i, i + Len(sep) - 1) = sep

\* s.find(sep): the index of the first occurrence of sep in s, 0 if none
find(s, sep) ==
    CHOOSE i \in 0..(Len(s) - Len(sep) + 1) :
        /\ i = 0 => \A j \in 1..(Len(s) - Len(sep) + 1) : ~occurs(s, sep, j)
        /\ i > 0 => occurs(s, sep, i) /\ \A j \in 1..(i - 1) : ~occurs(s, sep, j)

\* find that gives the index of the last occurrence
find_Last(s, sep) ==
    CHOOSE i \in 0..(Len(s) - Len(sep) + 1) :
        /\ i = 0 => \A j \in 1..(Len(s) - Len(sep) + 1) : ~occurs(s, sep, j)
        /\ i > 0 => /\ occurs(s, sep, i)
                    /\ \A j \in (i + 1)..(Len(s) - Len(sep) + 1) : ~occurs(s, sep, j)

\* the part of s before index i, s itself if i = 0
before(s, i) == IF i = 0 THEN s ELSE SubSeq(s, 1, i - 1)

\* split_first that splits at the last occurrence of sep
split_first_Last(s, sep) == before(s, find_Last(s, sep))

\* s.split(sep)[0]: the part of s before the first occurrence of sep
split_first(s, sep) == before(s, find(s, sep))

\* the decimal digits
Digit == [c \in {"0", "1", "2", "3", "4", "5", "6", "7", "8", "9"} |->
             CASE c = "0" -> 0 [] c = "1" -> 1 [] c = "2" -> 2 [] c = "3" -> 3
               [] c = "4" -> 4 [] c = "5" -> 5 [] c = "6" -> 6 [] c = "7" -> 7
               [] c = "8" -> 8 [] c = "9" -> 9]

\* s.isdigit()
isdigit(s) == Len(s) > 0 /\ \A i \in 1..Len(s) : SubSeq(s, i, i) \in DOMAIN Digit

\* int(s) of a string of digits
RECURSIVE int(_)
int(s) ==
    IF Len(s) = 0 THEN 0
    ELSE 10 * int(SubSeq(s, 1, Len(s) - 1)) + Digit[SubSeq(s, Len(s), Len(s))]

\* the number words among the entity values
NumberWords == [w \in {"three", "five", "forty-one"} |->
                   CASE w = "three" -> 3 [] w = "five" -> 5 [] w = "forty-one" -> 41]

\* w2n.word_to_num: the number, or None where it raises ValueError
word_to_num(word) ==
    IF isdigit(word) THEN Num(int(word))
    ELSE IF word \in DOMAIN NumberWords THEN Num(NumberWords[word])
    ELSE None

\* return w2n.word_to_num(number), or the message and None where it raised
\* ValueError (lines 38-43): n is the number, None where it raised
converted(adverb, n) ==
    IF n # None
    THEN [number |-> n, said |-> <<>>]
    ELSE [number |-> None, said |-> <<Msg("frequency", <<adverb>>)>>]

\* adverb_to_number that sends a second message when the prefix of
\* "<N> times" does not parse
adverb_to_number_Twice(adverb) ==
    IF adverb = "once" \/ adverb = "one time"
    THEN [number |-> Num(1), said |-> <<>>]
    ELSE IF adverb = "twice"
    THEN [number |-> Num(2), said |-> <<>>]
    ELSE IF endswith(adverb, " times") /\ word_to_num(split_first(adverb, " times")) # None
    THEN [number |-> word_to_num(split_first(adverb, " times")), said |-> <<>>]
    ELSE [number |-> None,
          said |-> <<Msg("frequency", <<adverb>>), Msg("frequency", <<adverb>>)>>]

\* Utils.adverb_to_number: [number, said] where said are the messages sent
adverb_to_number(adverb) ==
    IF adverb = "once" \/ adverb = "one time"
    THEN [number |-> Num(1), said |-> <<>>]
    ELSE IF adverb = "twice"
    THEN [number |-> Num(2), said |-> <<>>]
    ELSE IF endswith(adverb, " times")
    THEN converted(adverb, word_to_num(split_first(adverb, " times")))
    ELSE [number |-> None, said |-> <<Msg("frequency", <<adverb>>)>>]

\* int(word) succeeds: the strings of digits
IntLiteral(word) == isdigit(word)

\* Utils.word_to_number
word_to_number(word) ==
    IF IntLiteral(word)
    THEN [number |-> Num(int(word)), said |-> <<>>]
    ELSE LET n == word_to_num(word)
         IN  IF n # None
             THEN [number |-> n, said |-> <<>>]
             ELSE [number |-> None, said |-> <<Msg("number", <<word>>)>>]

\* str.lower on the line names
lower(line) ==
    CASE line = "Alpha Line" -> "alpha line"
      [] line = "Beta Line" -> "beta line"
      [] OTHER -> line

-----------------------------------------------------------------------------
(* TrackingPeople: the private methods.  Each returns the new foi, the     *)
(* messages it sent (said) and the assignments to foi it made (wrote).     *)

Write(field, value, parts) == [field |-> field, value |-> value, parts |-> parts]

\* LineField with the tests shifted by one line: the first line lands in
\* the field of the second
LineField_Shifted(line) ==
    IF lower(line) = LINE_1 THEN Str("line2_passages")
    ELSE IF lower(line) = LINE_2 THEN Str("line3_passages")
    ELSE IF lower(line) = LINE_3 THEN Str("line4_passages")
    ELSE None

\* LineField whose last test is a plain else: any other name is line 4
LineField_Default(line) ==
    IF lower(line) = LINE_1 THEN Str("line1_passages")
    ELSE IF lower(line) = LINE_2 THEN Str("line2_passages")
    ELSE IF lower(line) = LINE_3 THEN Str("line3_passages")
    ELSE Str("line4_passages")

\* the line field `line` names, or None when it names no configured line
LineField(line) ==
    IF lower(line) = LINE_1 THEN Str("line1_passages")
    ELSE IF lower(line) = LINE_2 THEN Str("line2_passages")
    ELSE IF lower(line) = LINE_3 THEN Str("line3_passages")
    ELSE IF lower(line) = LINE_4 THEN Str("line4_passages")
    ELSE None

\* the f-strings of a sequence of messages
Kinds(ms) == [i \in 1..Len(ms) |-> ms[i].kind]

\* the messages of __update_line (lines 214 and 217)
unknown_line(line) == Msg("unknown_line", <<line, LINE_1, LINE_2, LINE_3, LINE_4>>)
no_line == Msg("no_line", <<LINE_1, LINE_2, LINE_3, LINE_4>>)

\* update_line that takes an absent passages entity for an invalid frequency
update_line_QuantityRequired(f, d) ==
    LET conv == IF Has(d, "passages")
                THEN adverb_to_number(Get(d, "passages").value)
                ELSE [number |-> None, said |-> <<Msg("frequency", <<"">>)>>]
        neg_passages == IF Has(d, "passages") THEN Get(d, "passages").neg ELSE TRUE
        parts == {d[i].pos : i \in {j \in 1..Len(d) : d[j].key \in {"passages", "line"}}}
    IN  IF conv.number = None
        THEN [ok |-> FALSE, foi |-> f, said |-> conv.said, wrote |-> <<>>]
        ELSE IF Has(d, "line")
        THEN LET line == Get(d, "line").value
                 neg_line == Get(d, "line").neg
                 field == LineField(line)
                 value == Pair(conv.number, Bool(neg_passages /\ neg_line))
             IN  IF field # None
                 THEN [ok |-> TRUE, foi |-> [f EXCEPT ![field.s] = value],
                       said |-> conv.said, wrote |-> <<Write(field.s, value, parts)>>]
                 ELSE [ok |-> FALSE, foi |-> f,
                       said |-> conv.said \o <<unknown_line(line)>>, wrote |-> <<>>]
        ELSE [ok |-> FALSE, foi |-> f, said |-> conv.said \o <<no_line>>, wrote |-> <<>>]

\* update_line in which two negations of one group cancel
update_line_Cancelling(f, d) ==
    LET conv == IF Has(d, "passages")
                THEN adverb_to_number(Get(d, "passages").value)
                ELSE [number |-> Num(1), said |-> <<>>]
        neg_passages == IF Has(d, "passages") THEN Get(d, "passages").neg ELSE TRUE
        parts == {d[i].pos : i \in {j \in 1..Len(d) : d[j].key \in {"passages", "line"}}}
    IN  IF conv.number = None
        THEN [ok |-> FALSE, foi |-> f, said |-> conv.said, wrote |-> <<>>]
        ELSE IF Has(d, "line")
        THEN LET line == Get(d, "line").value
                 neg_line == Get(d, "line").neg
                 field == LineField(line)
                 value == Pair(conv.number, Bool(neg_passages = neg_line))
             IN  IF field # None
                 THEN [ok |-> TRUE, foi |-> [f EXCEPT ![field.s] = value],
                       said |-> conv.said, wrote |-> <<Write(field.s, value, parts)>>]
                 ELSE [ok |-> FALSE, foi |-> f,
                       said |-> conv.said \o <<unknown_line(line)>>, wrote |-> <<>>]
        ELSE [ok |-> FALSE, foi |-> f, said |-> conv.said \o <<no_line>>, wrote |-> <<>>]

\* update_line that takes the direction from the passages entry alone
update_line_PassagesOnly(f, d) ==
    LET conv == IF Has(d, "passages")
                THEN adverb_to_number(Get(d, "passages").value)
                ELSE [number |-> Num(1), said |-> <<>>]
        neg_passages == IF Has(d, "passages") THEN Get(d, "passages").neg ELSE TRUE
        parts == {d[i].pos : i \in {j \in 1..Len(d) : d[j].key \in {"passages", "line"}}}
    IN  IF conv.number = None
        THEN [ok |-> FALSE, foi |-> f, said |-> conv.said, wrote |-> <<>>]
        ELSE IF Has(d, "line")
        THEN LET line == Get(d, "line").value
                 neg_line == Get(d, "line").neg
                 field == LineField(line)
                 value == Pair(conv.number, Bool(neg_passages))
             IN  IF field # None
                 THEN [ok |-> TRUE, foi |-> [f EXCEPT ![field.s] = value],
                       said |-> conv.said, wrote |-> <<Write(field.s, value, parts)>>]
                 ELSE [ok |-> FALSE, foi |-> f,
                       said |-> conv.said \o <<unknown_line(line)>>, wrote |-> <<>>]
        ELSE [ok |-> FALSE, foi |-> f, said |-> conv.said \o <<no_line>>, wrote |-> <<>>]

\* update_line that looks for the line before it converts the quantity
update_line_LineFirst(f, d) ==
    LET conv == IF Has(d, "passages")
                THEN adverb_to_number(Get(d, "passages").value)
                ELSE [number |-> Num(1), said |-> <<>>]
        neg_passages == IF Has(d, "passages") THEN Get(d, "passages").neg ELSE TRUE
        parts == {d[i].pos : i \in {j \in 1..Len(d) : d[j].key \in {"passages", "line"}}}
    IN  IF ~Has(d, "line")
        THEN [ok |-> FALSE, foi |-> f, said |-> <<no_line>>, wrote |-> <<>>]
        ELSE IF conv.number = None
        THEN [ok |-> FALSE, foi |-> f, said |-> conv.said, wrote |-> <<>>]
        ELSE LET line == Get(d, "line").value
                 neg_line == Get(d, "line").neg
                 field == LineField(line)
                 value == Pair(conv.number, Bool(neg_passages /\ neg_line))
             IN  IF field # None
                 THEN [ok |-> TRUE, foi |-> [f EXCEPT ![field.s] = value],
                       said |-> conv.said, wrote |-> <<Write(field.s, value, parts)>>]
                 ELSE [ok |-> FALSE, foi |-> f,
                       said |-> conv.said \o <<unknown_line(line)>>, wrote |-> <<>>]

\* TrackingPeople.__update_line(current_group, update=True)
update_line(f, d) ==
    LET conv == IF Has(d, "passages")
                THEN adverb_to_number(Get(d, "passages").value)
                ELSE [number |-> Num(1), said |-> <<>>]
        neg_passages == IF Has(d, "passages") THEN Get(d, "passages").neg ELSE TRUE
        parts == {d[i].pos : i \in {j \in 1..Len(d) : d[j].key \in {"passages", "line"}}}
    IN  IF conv.number = None
        THEN [ok |-> FALSE, foi |-> f, said |-> conv.said, wrote |-> <<>>]
        ELSE IF Has(d, "line")
        THEN LET line == Get(d, "line").value
                 neg_line == Get(d, "line").neg
                 field == LineField(line)
                 value == Pair(conv.number, Bool(neg_passages /\ neg_line))
             IN  IF field # None
                 THEN [ok |-> TRUE, foi |-> [f EXCEPT ![field.s] = value],
                       said |-> conv.said, wrote |-> <<Write(field.s, value, parts)>>]
                 ELSE [ok |-> FALSE, foi |-> f,
                       said |-> conv.said \o <<unknown_line(line)>>, wrote |-> <<>>]
        ELSE [ok |-> FALSE, foi |-> f, said |-> conv.said \o <<no_line>>, wrote |-> <<>>]

\* update_clothing whose test for "hat" is a plain else
update_clothing_ElseHat(f, d, entity_value, n) ==
    LET neg == ~Has(d, "negation")
        field == IF entity_value = "bag" THEN "bag" ELSE "hat"
    IN  [foi |-> [f EXCEPT ![field] = Bool(neg)],
         wrote |-> <<Write(field, Bool(neg), {n})>>]

\* TrackingPeople.__update_clothing(current_group, entity_value)
update_clothing(f, d, entity_value, n) ==
    LET neg == ~Has(d, "negation")
    IN  IF entity_value \in {"hat", "bag"}
        THEN [foi |-> [f EXCEPT ![entity_value] = Bool(neg)],
              wrote |-> <<Write(entity_value, Bool(neg), {n})>>]
        ELSE [foi |-> f, wrote |-> <<>>]

\* update_gender that stores the entity's value whatever the polarity
update_gender_Verbatim(f, d, entity_value, n) ==
    [foi |-> [f EXCEPT !["gender"] = Str(entity_value)],
     wrote |-> <<Write("gender", Str(entity_value), {n})>>]

\* update_gender that, negated, stores the opposite of the gender the field holds
update_gender_Toggle(f, d, entity_value, n) ==
    LET neg == ~Has(d, "negation")
        value == IF neg THEN Str(entity_value)
                 ELSE IF f["gender"] = Str("female") THEN Str("male")
                 ELSE Str("female")
    IN  [foi |-> [f EXCEPT !["gender"] = value],
         wrote |-> <<Write("gender", value, {n})>>]

\* TrackingPeople.__update_gender(current_group, entity_value)
update_gender(f, d, entity_value, n) ==
    LET neg == ~Has(d, "negation")
        value == IF neg THEN Str(entity_value)
                 ELSE IF entity_value = "male" THEN Str("female")
                 ELSE Str("male")
    IN  [foi |-> [f EXCEPT !["gender"] = value],
         wrote |-> <<Write("gender", value, {n})>>]

-----------------------------------------------------------------------------
(* TrackingPeople.update: one iteration of the for loop on entity e, the   *)
(* n-th of the stream.  s is [foi, current_group, line_flag, ret, said,    *)
(* wrote]; ret becomes False when the iteration returns False.             *)

Failed(s, r) == [s EXCEPT !.ret = False, !.said = @ \o r.said]

\* PeopleGrouped whose flush clears the buffer, a buffered negation included
PeopleGrouped_DropNegation(s, e, n) ==
    LET d == s.current_group
        flush == s.line_flag /\ Has(d, e.entity)
        r == update_line(s.foi, d)
    IN  IF flush /\ ~r.ok
        THEN Failed(s, r)
        ELSE LET d1 == IF flush THEN <<>> ELSE d
                 neg == ~Has(d1, "negation")
                 d2 == IF ~neg THEN Del(d1, "negation") ELSE d1
             IN  [s EXCEPT !.foi = IF flush THEN r.foi ELSE @,
                           !.said = IF flush THEN @ \o r.said ELSE @,
                           !.wrote = IF flush THEN @ \o r.wrote ELSE @,
                           !.line_flag = TRUE,
                           !.current_group = Put(d2, Item(e.entity, e.value, neg, n))]

\* entity_key in ["passages", "line"] (lines 55-67)
PeopleGrouped(s, e, n) ==
    LET d == s.current_group
        flush == s.line_flag /\ Has(d, e.entity)
        r == update_line(s.foi, d)
    IN  IF flush /\ ~r.ok
        THEN Failed(s, r)
        ELSE LET d1 == IF flush
                       THEN (IF LastItem(d).key = "negation" THEN <<LastItem(d)>> ELSE <<>>)
                       ELSE d
                 neg == ~Has(d1, "negation")
                 d2 == IF ~neg THEN Del(d1, "negation") ELSE d1
             IN  [s EXCEPT !.foi = IF flush THEN r.foi ELSE @,
                           !.said = IF flush THEN @ \o r.said ELSE @,
                           !.wrote = IF flush THEN @ \o r.wrote ELSE @,
                           !.line_flag = TRUE,
                           !.current_group = Put(d2, Item(e.entity, e.value, neg, n))]

\* PeopleOther in which a negation closes the open group like any other entity
PeopleOther_NegationCloses(s, e, n) ==
    LET d == s.current_group
        flush == s.line_flag
        r == update_line(s.foi, d)
    IN  IF flush /\ ~r.ok
        THEN Failed(s, r)
        ELSE [s EXCEPT !.foi = IF flush THEN r.foi ELSE @,
                       !.said = IF flush THEN @ \o r.said ELSE @,
                       !.wrote = IF flush THEN @ \o r.wrote ELSE @,
                       !.line_flag = FALSE,
                       !.current_group =
                           Put(IF flush THEN <<>> ELSE d, Item(e.entity, e.value, TRUE, n))]

\* PeopleOther that leaves line_flag as it was after the flush
PeopleOther_FlagKept(s, e, n) ==
    LET d == s.current_group
        flush == s.line_flag /\ e.entity # "negation"
        r == update_line(s.foi, d)
    IN  IF s.line_flag /\ e.entity = "negation"
        THEN [s EXCEPT !.current_group = Put(d, Item(e.entity, e.value, TRUE, n))]
        ELSE IF flush /\ ~r.ok
        THEN Failed(s, r)
        ELSE [s EXCEPT !.foi = IF flush THEN r.foi ELSE @,
                       !.said = IF flush THEN @ \o r.said ELSE @,
                       !.wrote = IF flush THEN @ \o r.wrote ELSE @,
                       !.current_group =
                           Put(IF flush THEN <<>> ELSE d, Item(e.entity, e.value, TRUE, n))]

\* any other entity_key (lines 68-77)
PeopleOther(s, e, n) ==
    LET d == s.current_group
        flush == s.line_flag /\ e.entity # "negation"
        r == update_line(s.foi, d)
    IN  IF s.line_flag /\ e.entity = "negation"
        THEN [s EXCEPT !.current_group = Put(d, Item(e.entity, e.value, TRUE, n))]
        ELSE IF flush /\ ~r.ok
        THEN Failed(s, r)
        ELSE [s EXCEPT !.foi = IF flush THEN r.foi ELSE @,
                       !.said = IF flush THEN @ \o r.said ELSE @,
                       !.wrote = IF flush THEN @ \o r.wrote ELSE @,
                       !.line_flag = FALSE,
                       !.current_group =
                           Put(IF flush THEN <<>> ELSE d, Item(e.entity, e.value, TRUE, n))]

\* PeopleComplete that resolves the pair and leaves it in the buffer
PeopleComplete_NoFlush(s) ==
    LET r == update_line(s.foi, s.current_group)
    IN  IF Has(s.current_group, "passages") /\ Has(s.current_group, "line")
        THEN IF ~r.ok
             THEN Failed(s, r)
             ELSE [s EXCEPT !.foi = r.foi, !.said = @ \o r.said, !.wrote = @ \o r.wrote]
        ELSE s

\* the group holds both passages and line (lines 79-83)
PeopleComplete(s) ==
    LET r == update_line(s.foi, s.current_group)
    IN  IF Has(s.current_group, "passages") /\ Has(s.current_group, "line")
        THEN IF ~r.ok
             THEN Failed(s, r)
             ELSE [s EXCEPT !.foi = r.foi, !.said = @ \o r.said, !.wrote = @ \o r.wrote,
                            !.current_group = <<>>, !.line_flag = FALSE]
        ELSE s

\* PeopleStandalone without current_group.clear() after the resolve
PeopleStandalone_NoClear(s, e, n) ==
    IF ~s.line_flag
    THEN IF e.entity = "clothing"
         THEN LET r == update_clothing(s.foi, s.current_group, e.value, n)
              IN  [s EXCEPT !.foi = r.foi, !.wrote = @ \o r.wrote]
         ELSE IF e.entity = "gender"
         THEN LET r == update_gender(s.foi, s.current_group, e.value, n)
              IN  [s EXCEPT !.foi = r.foi, !.wrote = @ \o r.wrote]
         ELSE s
    ELSE s

\* PeopleStandalone in which the gender resolve leaves the buffer as it is
PeopleStandalone_GenderKeeps(s, e, n) ==
    IF ~s.line_flag
    THEN IF e.entity = "clothing"
         THEN LET r == update_clothing(s.foi, s.current_group, e.value, n)
              IN  [s EXCEPT !.foi = r.foi, !.wrote = @ \o r.wrote, !.current_group = <<>>]
         ELSE IF e.entity = "gender"
         THEN LET r == update_gender(s.foi, s.current_group, e.value, n)
              IN  [s EXCEPT !.foi = r.foi, !.wrote = @ \o r.wrote]
         ELSE s
    ELSE s

\* clothing and gender resolve on their own (lines 85-93)
PeopleStandalone(s, e, n) ==
    IF ~s.line_flag
    THEN IF e.entity = "clothing"
         THEN LET r == update_clothing(s.foi, s.current_group, e.value, n)
              IN  [s EXCEPT !.foi = r.foi, !.wrote = @ \o r.wrote, !.current_group = <<>>]
         ELSE IF e.entity = "gender"
         THEN LET r == update_gender(s.foi, s.current_group, e.value, n)
              IN  [s EXCEPT !.foi = r.foi, !.wrote = @ \o r.wrote, !.current_group = <<>>]
         ELSE s
    ELSE s

\* the body of the for loop (lines 50-93)
PeopleLoopBody(s, e, n) ==
    LET a == IF e.entity \in {"passages", "line"}
             THEN PeopleGrouped(s, e, n)
             ELSE PeopleOther(s, e, n)
        b == IF a.ret = False THEN a ELSE PeopleComplete(a)
    IN  IF b.ret = False THEN b ELSE PeopleStandalone(b, e, n)

\* after the loop (lines 95-102)
PeopleAfterLoop(s) ==
    LET r == update_line(s.foi, s.current_group)
    IN  IF s.current_group # <<>>
        THEN IF ~r.ok
             THEN Failed(s, r)
             ELSE [s EXCEPT !.foi = r.foi, !.said = @ \o r.said, !.wrote = @ \o r.wrote,
                            !.current_group = <<>>, !.line_flag = FALSE, !.ret = True]
        ELSE [s EXCEPT !.ret = True]

\* the state of update before the first iteration (lines 45-48), foi = f
Start(f) == [foi |-> f, current_group |-> <<>>, line_flag |-> FALSE,
             ret |-> None, said |-> <<>>, wrote |-> <<>>]

\* TrackingPeople.update from the n-th entity of es on (lines 50-102)
RECURSIVE PeopleFrom(_, _, _)
PeopleFrom(s, es, n) ==
    IF s.ret = False THEN s
    ELSE IF n > Len(es) THEN PeopleAfterLoop(s)
    ELSE PeopleFrom(PeopleLoopBody(s, es[n], n), es, n + 1)

\* TrackingPeople.update on the entities es with foi = f (lines 25-102)
People_update(es, f) == PeopleFrom(Start(f), es, 1)

-----------------------------------------------------------------------------
(* TrackingGroups *)

\* update_score that stores every mark with polarity True
update_score_Affirmed(f, d) ==
    LET conv == IF Has(d, "mark")
                THEN word_to_number(Get(d, "mark").value)
                ELSE [number |-> None, said |-> <<>>]
        parts == {d[i].pos : i \in {j \in 1..Len(d) : d[j].key = "mark"}}
    IN  IF conv.number # None
        THEN LET value == Pair(conv.number, True)
             IN  [ok |-> TRUE, foi |-> [f EXCEPT !["score"] = value],
                  said |-> conv.said, wrote |-> <<Write("score", value, parts)>>]
        ELSE [ok |-> FALSE, foi |-> f, said |-> conv.said, wrote |-> <<>>]

\* update_score without the test `if mark is not None`
update_score_Unchecked(f, d) ==
    LET conv == IF Has(d, "mark")
                THEN word_to_number(Get(d, "mark").value)
                ELSE [number |-> None, said |-> <<>>]
        neg_mark == IF Has(d, "mark") THEN Bool(Get(d, "mark").neg) ELSE None
        parts == {d[i].pos : i \in {j \in 1..Len(d) : d[j].key = "mark"}}
        value == Pair(conv.number, neg_mark)
    IN  [ok |-> TRUE, foi |-> [f EXCEPT !["score"] = value],
         said |-> conv.said, wrote |-> <<Write("score", value, parts)>>]

\* update_score that assigns score only while it is None
update_score_FirstWins(f, d) ==
    LET conv == IF Has(d, "mark")
                THEN word_to_number(Get(d, "mark").value)
                ELSE [number |-> None, said |-> <<>>]
        parts == {d[i].pos : i \in {j \in 1..Len(d) : d[j].key = "mark"}}
    IN  IF conv.number # None
        THEN LET value == Pair(conv.number, Bool(Get(d, "mark").neg))
             IN  [ok |-> TRUE,
                  foi |-> IF f["score"] = None THEN [f EXCEPT !["score"] = value] ELSE f,
                  said |-> conv.said, wrote |-> <<Write("score", value, parts)>>]
        ELSE [ok |-> FALSE, foi |-> f, said |-> conv.said, wrote |-> <<>>]

\* TrackingGroups.__update_score(current_group, update=True)
update_score(f, d) ==
    LET conv == IF Has(d, "mark")
                THEN word_to_number(Get(d, "mark").value)
                ELSE [number |-> None, said |-> <<>>]
        parts == {d[i].pos : i \in {j \in 1..Len(d) : d[j].key = "mark"}}
    IN  IF conv.number # None
        THEN LET value == Pair(conv.number, Bool(Get(d, "mark").neg))
             IN  [ok |-> TRUE, foi |-> [f EXCEPT !["score"] = value],
                  said |-> conv.said, wrote |-> <<Write("score", value, parts)>>]
        ELSE [ok |-> FALSE, foi |-> f, said |-> conv.said, wrote |-> <<>>]

\* entity_key in ["mark"] (lines 297-309)
GroupsGrouped(s, e, n) ==
    LET d == s.current_group
        flush == s.line_flag /\ Has(d, e.entity)
        r == update_score(s.foi, d)
    IN  IF flush /\ ~r.ok
        THEN Failed(s, r)
        ELSE LET d1 == IF flush
                       THEN (IF LastItem(d).key = "negation" THEN <<LastItem(d)>> ELSE <<>>)
                       ELSE d
                 neg == ~Has(d1, "negation")
                 d2 == IF ~neg THEN Del(d1, "negation") ELSE d1
             IN  [s EXCEPT !.foi = IF flush THEN r.foi ELSE @,
                           !.said = IF flush THEN @ \o r.said ELSE @,
                           !.wrote = IF flush THEN @ \o r.wrote ELSE @,
                           !.line_flag = TRUE,
                           !.current_group = Put(d2, Item(e.entity, e.value, neg, n))]

\* any other entity_key (lines 310-319)
GroupsOther(s, e, n) ==
    LET d == s.current_group
        flush == s.line_flag /\ e.entity # "negation"
        r == update_score(s.foi, d)
    IN  IF s.line_flag /\ e.entity = "negation"
        THEN [s EXCEPT !.current_group = Put(d, Item(e.entity, e.value, TRUE, n))]
        ELSE IF flush /\ ~r.ok
        THEN Failed(s, r)
        ELSE [s EXCEPT !.foi = IF flush THEN r.foi ELSE @,
                       !.said = IF flush THEN @ \o r.said ELSE @,
                       !.wrote = IF flush THEN @ \o r.wrote ELSE @,
                       !.line_flag = FALSE,
                       !.current_group =
                           Put(IF flush THEN <<>> ELSE d, Item(e.entity, e.value, TRUE, n))]

\* the group holds a mark (lines 321-325)
GroupsComplete(s) ==
    LET r == update_score(s.foi, s.current_group)
    IN  IF Has(s.current_group, "mark")
        THEN IF ~r.ok
             THEN Failed(s, r)
             ELSE [s EXCEPT !.foi = r.foi, !.said = @ \o r.said, !.wrote = @ \o r.wrote,
                            !.current_group = <<>>, !.line_flag = FALSE]
        ELSE s

\* the body of the for loop (lines 292-325)
GroupsLoopBody(s, e, n) ==
    LET a == IF e.entity \in {"mark"}
             THEN GroupsGrouped(s, e, n)
             ELSE GroupsOther(s, e, n)
    IN  IF a.ret = False THEN a ELSE GroupsComplete(a)

\* after the loop (lines 327-332)
GroupsAfterLoop(s) ==
    LET r == update_score(s.foi, s.current_group)
    IN  IF s.current_group # <<>>
        THEN IF ~r.ok
             THEN Failed(s, r)
             ELSE [s EXCEPT !.foi = r.foi, !.said = @ \o r.said, !.wrote = @ \o r.wrote,
                            !.current_group = <<>>, !.ret = True]
        ELSE [s EXCEPT !.ret = True]

\* TrackingGroups.update from the n-th entity of es on (lines 292-332)
RECURSIVE GroupsFrom(_, _, _)
GroupsFrom(s, es, n) ==
    IF s.ret = False THEN s
    ELSE IF n > Len(es) THEN GroupsAfterLoop(s)
    ELSE GroupsFrom(GroupsLoopBody(s, es[n], n), es, n + 1)

\* TrackingGroups.update on the entities es with foi = f (lines 272-332)
Groups_update(es, f) == GroupsFrom(Start(f), es, 1)

-----------------------------------------------------------------------------
(* The dataset files and filteringJSON.  A person record is {gender, bag,  *)
(* hat, trajectory}, a group record {id, score} (position and              *)
(* group_members are never read).                                          *)

Person(g, b, h, t) == [gender |-> Str(g), bag |-> Bool(b), hat |-> Bool(h), trajectory |-> t]
Group(id, score) == [id |-> id, score |-> Num(score)]

\* a list of records
Records(items) == [tag |-> "list", items |-> items]

\* the dataset files of the conversations
Database ==
    [people |-> <<Person("male", TRUE, FALSE, <<1, 1, 1>>),
                  Person("female", FALSE, TRUE, <<1, 2, 1>>),
                  Person("male", FALSE, FALSE, <<4, 3, 4>>)>>,
     groups |-> <<Group(1, 7), Group(2, 5), Group(3, 3)>>]

\* list(self.foi.items()): the keys of foi in the order __init__ inserts them
PeopleFoiOrder == <<"gender", "bag", "hat", "line1_passages", "line2_passages",
                    "line3_passages", "line4_passages">>
GroupsFoiOrder == <<"score">>

\* the keys of items[lo:hi]
Slice(items, lo, hi) == {items[i] : i \in {j \in DOMAIN items : lo < j /\ j <= hi}}

\* count that tells only whether the line occurs
count_Distinct(trajectory, line) ==
    IF \E i \in DOMAIN trajectory : trajectory[i] = line THEN 1 ELSE 0

\* trajectory.count(line)
count(trajectory, line) == Cardinality({i \in DOMAIN trajectory : trajectory[i] = line})

\* the line whose count a line field holds
LineOf == [k \in Slice(PeopleFoiOrder, 3, 7) |->
              CHOOSE i \in 4..7 : PeopleFoiOrder[i] = k]

\* person[f"line{line}_passages"] = person["trajectory"].count(line) for
\* line in range(1, 5) (lines 137-139)
Counted(person) ==
    [k \in DOMAIN person \cup DOMAIN LineOf |->
        IF k \in DOMAIN LineOf THEN Num(count(person.trajectory, LineOf[k] - 3))
        ELSE person[k]]

\* Truthy that takes a pair's flag for true whatever it is
Truthy_Always(v) == v.tag \in {"bool", "int", "str"}

\* the truth value of a value in a condition
Truthy(v) ==
    CASE v.tag = "bool" -> v.b
      [] v.tag = "int" -> v.n # 0
      [] v.tag = "str" -> v.s # ""
      [] v.tag \in {"tuple", "list"} -> ("items" \in DOMAIN v => v.items # <<>>)
      [] OTHER -> FALSE

\* IsSet with `if value` for `if value is not None`
IsSet_Truthy(f, keys) == {k \in keys : f[k].tag = "tuple" \/ Truthy(f[k])}

\* the keys of the given slice of foi that hold a value
IsSet(f, keys) == {k \in keys : f[k] # None}

\* TrackingPeople.filteringJSON: [doi, nop]
People_filteringJSON(f, people) ==
    LET foi_gender_hat_bag == IsSet(f, Slice(PeopleFoiOrder, 0, 3))
        doi1 == IF foi_gender_hat_bag # {}
                THEN SelectSeq(people, LAMBDA person :
                         \A key \in foi_gender_hat_bag : person[key] = f[key])
                ELSE people
        doi2 == [i \in 1..Len(doi1) |-> Counted(doi1[i])]
        foi_line == IsSet(f, Slice(PeopleFoiOrder, 3, 7))
        doi3 == IF foi_line # {}
                THEN SelectSeq(doi2, LAMBDA person :
                         \A key \in foi_line :
                             IF Truthy(f[key].flag)
                             THEN person[key].n >= f[key].n.n
                             ELSE person[key].n < f[key].n.n)
                ELSE doi2
    IN  [doi |-> doi3, nop |-> Len(doi3)]

\* Groups_filteringJSON that compares with > for >=
Groups_filteringJSON_Strict(f, groups) ==
    LET foi_score == IsSet(f, Slice(GroupsFoiOrder, 0, 1))
        doi1 == IF foi_score # {}
                THEN SelectSeq(groups, LAMBDA person :
                         \A key \in foi_score :
                             IF f[key].flag = True
                             THEN person[key].n > f[key].n.n
                             ELSE person[key].n < f[key].n.n)
                ELSE groups
    IN  [doi |-> doi1, nop |-> Len(doi1)]

\* Groups_filteringJSON that sets nop before it filters
Groups_filteringJSON_EarlyCount(f, groups) ==
    LET foi_score == IsSet(f, Slice(GroupsFoiOrder, 0, 1))
        doi1 == IF foi_score # {}
                THEN SelectSeq(groups, LAMBDA person :
                         \A key \in foi_score :
                             IF f[key].flag = True
                             THEN person[key].n >= f[key].n.n
                             ELSE person[key].n < f[key].n.n)
                ELSE groups
    IN  [doi |-> doi1, nop |-> Len(groups)]

\* TrackingGroups.filteringJSON: [doi, nop]
Groups_filteringJSON(f, groups) ==
    LET foi_score == IsSet(f, Slice(GroupsFoiOrder, 0, 1))
        doi1 == IF foi_score # {}
                THEN SelectSeq(groups, LAMBDA person :
                         \A key \in foi_score :
                             IF f[key].flag = True
                             THEN person[key].n >= f[key].n.n
                             ELSE person[key].n < f[key].n.n)
                ELSE groups
    IN  [doi |-> doi1, nop |-> Len(doi1)]

-----------------------------------------------------------------------------
(* __str__: the text of the result message as the pieces it is built from *)

\* passages_string that writes "<n> time" for every n above 2
passages_string_Singular(n) ==
    IF n = 1 THEN "once" ELSE IF n = 2 THEN "twice" ELSE ToString(n) \o " time"

\* passages_string (lines 162, 166, 170, 174), str(n) for the f-string {n}
passages_string(n) ==
    IF n = 1 THEN "once" ELSE IF n = 2 THEN "twice" ELSE ToString(n) \o " times"

\* ', '.join(attributes): the pieces of the attributes, ", " between them
RECURSIVE join(_)
join(attributes) ==
    IF Len(attributes) = 0 THEN <<>>
    ELSE IF Len(attributes) = 1 THEN attributes[1]
    ELSE (attributes[1] \o <<", ">>) \o join(Tail(attributes))

\* clothing_string that tests the truth of the field: False goes unmentioned
clothing_string_Truthy(f, key) == IF Truthy(f[key]) THEN <<key>> ELSE <<>>

\* the attribute of bag or hat (lines 159-160): None when the field is
\* neither True nor False
clothing_string(f, key) ==
    IF f[key] = True THEN <<key>> ELSE IF f[key] = False THEN <<"no " \o key>> ELSE <<>>

\* the attribute of a line field (lines 161-176)
line_string(f, key, line) ==
    IF Truthy(f[key])
    THEN <<IF f[key].flag = True THEN "have crossed at least "
           ELSE "have not crossed at least ",
           passages_string(f[key].n.n), " the ", line>>
    ELSE <<>>

\* "people of " + self.foi["gender"] + " gender" raises TypeError when the
\* gender is neither None nor a str
People_str_raises(f) == f.gender # None /\ f.gender.tag # "str"

\* TrackingPeople.__str__ (lines 156-179) with self.nop = n
People_str(f, n) ==
    LET people_string == IF f.gender # None
                         THEN <<"people of ", f.gender.s, " gender">>
                         ELSE <<"people">>
        output_string == <<clothing_string(f, "bag"), clothing_string(f, "hat"),
                           line_string(f, "line1_passages", LINE_1),
                           line_string(f, "line2_passages", LINE_2),
                           line_string(f, "line3_passages", LINE_3),
                           line_string(f, "line4_passages", LINE_4)>>
        attributes == SelectSeq(output_string, LAMBDA item : item # <<>>)
    IN  (<<"There are currently ", ToString(n), " ">> \o people_string)
        \o (IF attributes # <<>>
            THEN (<<" in the mall that meet the required specifications: ">>
                  \o join(attributes)) \o <<".">>
            ELSE <<" in the mall.">>)

\* the attribute of the score (lines 370-372)
score_string(f) ==
    IF Truthy(f.score)
    THEN <<IF f.score.flag = True THEN "scored at least " ELSE "scored less than ",
           ToString(f.score.n.n), " points">>
    ELSE <<>>

\* TrackingGroups.__str__ (lines 368-376) with self.nop = n
Groups_str(f, n) ==
    LET attributes == SelectSeq(<<score_string(f)>>, LAMBDA item : item # <<>>)
    IN  <<"There are ", ToString(n), " groups that have participated in the contets">>
        \o (IF attributes # <<>>
            THEN (<<" that meet the required specifications: ">> \o join(attributes))
                 \o <<".">>
            ELSE <<".">>)

-----------------------------------------------------------------------------
(* actions.py: ActionCountPeople, ActionCountGroups, ActionReset *)

\* Restore that tests the value's truth instead of comparing with "None"
Restore_Truthy(value) ==
    IF value.tag = "list"
    THEN [value EXCEPT !.tag = "tuple"]
    ELSE IF value # Str("None") /\ value # False THEN value ELSE None

\* a slot value loaded into foi (ActionCountPeople.run lines 83-86): a list of
\* any length becomes the tuple of its elements
Restore(value) ==
    IF value.tag = "list"
    THEN [value EXCEPT !.tag = "tuple"]
    ELSE IF value # Str("None") THEN value ELSE None

\* SlotSet(key, value) as the tracker stores it: a tuple arrives as a list
SlotSet(value) ==
    IF value.tag = "tuple" THEN [value EXCEPT !.tag = "list"] ELSE value

\* the state of update at the start of an iteration
Cur == [foi |-> foi, current_group |-> current_group, line_flag |-> line_flag,
        ret |-> None, said |-> <<>>, wrote |-> <<>>]

\* update goes on with the next iteration
Continue(s) ==
    /\ pc' = "loop"
    /\ foi' = s.foi
    /\ current_group' = s.current_group
    /\ line_flag' = s.line_flag
    /\ ret' = None
    /\ sent' = sent \o s.said
    /\ writes' = writes \o s.wrote
    /\ UNCHANGED <<action, slots, data, doi, nop, raised, other>>

\* Filter on the field map as it was restored from the slots
Filter_Restored(s) ==
    LET f == [k \in DOMAIN s.foi |-> Restore(slots[k])]
        r == IF action = "action_count_people"
             THEN People_filteringJSON(f, data["people"])
             ELSE Groups_filteringJSON(f, data["groups"])
    IN  /\ doi' = IF s.ret = True THEN Records(r.doi) ELSE doi
        /\ nop' = IF s.ret = True THEN r.nop ELSE nop

\* doi = filteringJSON() if update returned True (actions.py lines 88-90 and
\* 355-357)
Filter(s) ==
    LET r == IF action = "action_count_people"
             THEN People_filteringJSON(s.foi, data["people"])
             ELSE Groups_filteringJSON(s.foi, data["groups"])
    IN  /\ doi' = IF s.ret = True THEN Records(r.doi) ELSE doi
        /\ nop' = IF s.ret = True THEN r.nop ELSE nop

\* Narrate that sends the result whatever update returned
Narrate_Always(s) ==
    LET raises == action = "action_count_people" /\ People_str_raises(s.foi)
        text == IF action = "action_count_people"
                THEN People_str(s.foi, nop')
                ELSE Groups_str(s.foi, nop')
    IN  /\ raised' = IF raises THEN Str("TypeError") ELSE None
        /\ sent' = (sent \o s.said) \o (IF ~raises THEN <<Msg("result", text)>> ELSE <<>>)

\* dispatcher.utter_message(text=str(cp)) if update returned True (actions.py
\* lines 93 and 360); str(cp) reads the nop filteringJSON has just set.  An
\* exception raised by __str__ ends run: no message, no events
Narrate(s) ==
    LET raises == action = "action_count_people" /\ People_str_raises(s.foi)
        text == IF action = "action_count_people"
                THEN People_str(s.foi, nop')
                ELSE Groups_str(s.foi, nop')
    IN  /\ raised' = IF s.ret = True /\ raises THEN Str("TypeError") ELSE None
        /\ sent' = (sent \o s.said)
                   \o (IF s.ret = True /\ ~raises THEN <<Msg("result", text)>> ELSE <<>>)

\* Return that returns the SlotSet events only when update returned True
Return_OnlyOnSuccess(s) ==
    /\ pc' = "idle"
    /\ foi' = s.foi
    /\ current_group' = s.current_group
    /\ line_flag' = s.line_flag
    /\ ret' = s.ret
    /\ writes' = writes \o s.wrote
    /\ Filter(s)
    /\ Narrate(s)
    /\ slots' = IF raised' # None \/ s.ret # True THEN slots
                ELSE [k \in SlotKeys |->
                         IF k \in DOMAIN s.foi THEN SlotSet(s.foi[k]) ELSE slots[k]]
    /\ UNCHANGED <<action, data, other>>

\* update has returned s.ret: the rest of run (actions.py lines 89-98 and
\* 355-365): the result message if update returned True, then the SlotSet
\* events of every field of foi
Return(s) ==
    /\ pc' = "idle"
    /\ foi' = s.foi
    /\ current_group' = s.current_group
    /\ line_flag' = s.line_flag
    /\ ret' = s.ret
    /\ writes' = writes \o s.wrote
    /\ Filter(s)
    /\ Narrate(s)
    /\ slots' = IF raised' # None THEN slots
                ELSE [k \in SlotKeys |->
                         IF k \in DOMAIN s.foi THEN SlotSet(s.foi[k]) ELSE slots[k]]
    /\ UNCHANGED <<action, data, other>>

\* ActionCountPeople.run up to the call of update (lines 76-86)
BeginCountPeople ==
    /\ pc = "idle"
    /\ pc' = "loop"
    /\ action' = "action_count_people"
    /\ foi' = [k \in PeopleKeys |-> Restore(slots[k])]
    /\ entities' = <<>>
    /\ current_group' = <<>>
    /\ line_flag' = FALSE
    /\ ret' = None
    /\ sent' = <<>>
    /\ writes' = <<>>
    /\ arrival' = <<>>
    /\ doi' = None
    /\ nop' = 0
    /\ raised' = None
    /\ UNCHANGED <<slots, nread, data, other>>

\* one iteration of TrackingPeople.update on the next entity of the stream
PeopleReadEntity(e) ==
    /\ pc = "loop"
    /\ action = "action_count_people"
    /\ nread < MaxEntities
    /\ nread' = nread + 1
    /\ entities' = Append(entities, e)
    /\ arrival' = Append(arrival, {current_group[i].key : i \in 1..Len(current_group)})
    /\ LET s == PeopleLoopBody(Cur, e, Len(entities) + 1)
       IN  IF s.ret = False THEN Return(s) ELSE Continue(s)

\* the stream is exhausted: the end of TrackingPeople.update, then of run
PeopleEndOfStream ==
    /\ pc = "loop"
    /\ action = "action_count_people"
    /\ UNCHANGED <<entities, nread, arrival>>
    /\ Return(PeopleAfterLoop(Cur))

\* ActionCountGroups.run up to the call of update (lines 343-353)
BeginCountGroups ==
    /\ pc = "idle"
    /\ pc' = "loop"
    /\ action' = "action_count_groups"
    /\ foi' = [k \in GroupKeys |-> Restore(slots[k])]
    /\ entities' = <<>>
    /\ current_group' = <<>>
    /\ line_flag' = FALSE
    /\ ret' = None
    /\ sent' = <<>>
    /\ writes' = <<>>
    /\ arrival' = <<>>
    /\ doi' = None
    /\ nop' = 0
    /\ raised' = None
    /\ UNCHANGED <<slots, nread, data, other>>

\* one iteration of TrackingGroups.update on the next entity of the stream
GroupsReadEntity(e) ==
    /\ pc = "loop"
    /\ action = "action_count_groups"
    /\ nread < MaxEntities
    /\ nread' = nread + 1
    /\ entities' = Append(entities, e)
    /\ arrival' = Append(arrival, {current_group[i].key : i \in 1..Len(current_group)})
    /\ LET s == GroupsLoopBody(Cur, e, Len(entities) + 1)
       IN  IF s.ret = False THEN Return(s) ELSE Continue(s)

\* the stream is exhausted: the end of TrackingGroups.update, then of run
GroupsEndOfStream ==
    /\ pc = "loop"
    /\ action = "action_count_groups"
    /\ UNCHANGED <<entities, nread, arrival>>
    /\ Return(GroupsAfterLoop(Cur))

\* ActionReset.run: AllSlotsReset
Reset ==
    /\ pc = "idle"
    /\ action' = "action_reset"
    /\ slots' = [k \in SlotKeys |-> None]
    /\ UNCHANGED <<pc, foi, entities, current_group, line_flag, ret, sent, writes, nread,
                   arrival, data, doi, nop, raised, other>>

\* a slot value loaded into foi by ActionSubmit.run (line 197): a list stays
\* a list
Restore_Submit(value) == IF value # Str("None") THEN value ELSE None

\* the sentence ActionSubmit.run adds for the i-th person of doi (lines
\* 207-223) when nop people were found
person_string(field, i, n) ==
    <<IF n = 1 THEN (IF field.gender = Str("male") THEN " He " ELSE " She ")
      ELSE " The person number " \o ToString(i) \o " ",
      "crossed the alpha line ", passages_string(field.line1_passages.n),
      ", the beta line ", passages_string(field.line2_passages.n),
      ", the gamma line ", passages_string(field.line3_passages.n),
      " and the delta line ", passages_string(field.line4_passages.n), ".">>

\* output_string of ActionSubmit.run: the sentences of doi[i..]
RECURSIVE output_string(_, _, _)
output_string(items, i, n) ==
    IF i > Len(items) THEN <<>>
    ELSE person_string(items[i], i, n) \o output_string(items, i + 1, n)

\* ActionSubmit.run (lines 189-231): the slots restored into a new
\* TrackingPeople, filteringJSON, one message, AllSlotsReset.  An exception
\* raised by __str__ ends run: no message, no events
Submit ==
    /\ pc = "idle"
    /\ action' = "action_submit"
    /\ foi' = [k \in PeopleKeys |-> Restore_Submit(slots[k])]
    /\ LET r == People_filteringJSON(foi', data["people"])
           raises == People_str_raises(foi')
       IN  /\ doi' = Records(r.doi)
           /\ nop' = r.nop
           /\ raised' = IF raises THEN Str("TypeError") ELSE None
           /\ sent' = IF raises THEN <<>>
                      ELSE IF r.nop # 0
                      THEN <<Msg("found", People_str(foi', r.nop)
                                          \o output_string(r.doi, 1, r.nop))>>
                      ELSE <<Msg("not_found",
                                 (<<"I'm sorry. ">> \o People_str(foi', r.nop))
                                 \o <<" I can assist you by calling the mall security.",
                                      " They will be here in a few seconds.">>)>>
           /\ slots' = IF raises THEN slots ELSE [k \in SlotKeys |-> None]
    /\ entities' = <<>>
    /\ current_group' = <<>>
    /\ line_flag' = FALSE
    /\ ret' = None
    /\ writes' = <<>>
    /\ arrival' = <<>>
    /\ UNCHANGED <<pc, nread, data, other>>

-----------------------------------------------------------------------------
(* actions.py: ActionSlotMapping.  st is [current_group, new_slot_values]. *)

\* the body of the for loop of ActionSlotMapping.run on entity e, the n-th
\* of the stream (lines 154-174)
SlotMappingBody(st, e, n) ==
    LET d == Put(st.current_group, Item(e.entity, e.value, TRUE, n))
        neg == ~Has(d, "negation")
    IN  IF e.entity = "clothing"
        THEN [current_group |-> <<>>,
              new_slot_values |->
                  IF e.value \in {"hat", "bag"}
                  THEN [st.new_slot_values EXCEPT ![e.value] = Bool(neg)]
                  ELSE st.new_slot_values]
        ELSE IF e.entity = "gender"
        THEN [current_group |-> <<>>,
              new_slot_values |->
                  [st.new_slot_values EXCEPT !["gender"] =
                      IF neg THEN Str(e.value)
                      ELSE IF e.value = "male" THEN Str("female")
                      ELSE Str("male")]]
        ELSE [st EXCEPT !.current_group = d]

\* the for loop from the n-th entity of es on
RECURSIVE SlotMappingFrom(_, _, _)
SlotMappingFrom(st, es, n) ==
    IF n > Len(es) THEN st
    ELSE SlotMappingFrom(SlotMappingBody(st, es[n], n), es, n + 1)

\* ActionSlotMapping.run (lines 143-179) on the entities es of a message
\* with the given intent and a tracker with the given slot values: the
\* values of the SlotSet events it returns
SlotMapping_run(intent, es, values) ==
    SlotMappingFrom([current_group |-> <<>>,
                     new_slot_values |-> IF intent = "finding_someone"
                                         THEN [k \in DOMAIN values |-> None]
                                         ELSE values],
                    es, 1).new_slot_values

-----------------------------------------------------------------------------
(* actions.py: ActionResetOldSlot *)

\* the event SlotSet(key, value) in the list a run returns
Event(key, value) == [event |-> "slot", name |-> key, value |-> value]

\* updated_slot after the for loop over the entities es[n..] (lines 392-401)
RECURSIVE updated_slot(_, _, _)
updated_slot(es, n, sofar) ==
    IF n > Len(es) THEN sofar
    ELSE updated_slot(es, n + 1,
             IF es[n].entity = "position" THEN Str("position")
             ELSE IF es[n].entity = "group_ID" THEN Str("group_ID")
             ELSE IF es[n].entity = "member_group" THEN Str("member_group")
             ELSE IF es[n].entity = "mark" THEN Str("score")
             ELSE sofar)

\* ActionResetOldSlot.run (lines 375-406) on a message with the entities es
\* and a tracker whose slot last_updated holds last_updated: the events
ActionResetOldSlot_run(es, last_updated) ==
    IF Len(es) = 0 /\ last_updated = None
    THEN <<Event("last_updated", Str("zero"))>>
    ELSE IF Len(es) = 0 /\ last_updated # None
    THEN <<>>
    ELSE IF /\ Len(es) = 2
            /\ \E i \in 1..Len(es) : es[i].value = "negation"
            /\ \E i \in 1..Len(es) : es[i].value = "mark"
    THEN <<>>
    ELSE IF Len(es) > 1
    THEN <<Event("last_updated", Str("more than one"))>>
    ELSE IF updated_slot(es, 1, None) # None
    THEN <<Event("last_updated", updated_slot(es, 1, None))>>
    ELSE <<Event("last_updated", Str("wrong entity"))>>

-----------------------------------------------------------------------------
(* A second counting turn, processed by the action server while the first  *)
(* is.  Each run builds its own TrackingPeople / TrackingGroups            *)
(* (actions.py lines 80 and 347) from its own tracker, and update its own  *)
(* current_group and flag (lines 46-48 and 289-291); `other` holds those   *)
(* of the second run, `slots` being the slot values of its tracker.        *)

\* the run of the second turn before it starts, on a tracker with the given slots
NoTurn(values) ==
    [pc |-> "idle", action |-> "none", slots |-> values, foi |-> PeopleFoi,
     entities |-> <<>>, current_group |-> <<>>, line_flag |-> FALSE, ret |-> None,
     sent |-> <<>>, nop |-> 0, overlap |-> FALSE]

\* the run with the local state of update shared with the first run
OtherCur_Shared ==
    [foi |-> other.foi, current_group |-> current_group, line_flag |-> line_flag,
     ret |-> None, said |-> <<>>, wrote |-> <<>>]

\* the state of update of the second run at the start of an iteration
OtherCur ==
    [foi |-> other.foi, current_group |-> other.current_group,
     line_flag |-> other.line_flag, ret |-> None, said |-> <<>>, wrote |-> <<>>]

\* the body of the for loop / the code after the loop of the update of action a
LoopBody(a, s, e, n) ==
    IF a = "action_count_people" THEN PeopleLoopBody(s, e, n) ELSE GroupsLoopBody(s, e, n)
AfterLoop(a, s) ==
    IF a = "action_count_people" THEN PeopleAfterLoop(s) ELSE GroupsAfterLoop(s)

\* the message of run once update has returned s.ret and the filter has
\* counted n, text being str(cp) (actions.py lines 89-93 and 356-360)
Answered(s, n, text) ==
    IF s.ret = True
    THEN [nop |-> n, sent |-> s.said \o <<Msg("result", text)>>]
    ELSE [nop |-> 0, sent |-> s.said]
PeopleRest(s, n) == Answered(s, n, People_str(s.foi, n))
GroupsRest(s, n) == Answered(s, n, Groups_str(s.foi, n))

\* the rest of run of action a once update has returned s.ret: [nop, sent]
\* (actions.py lines 89-93 and 356-360)
Rest(a, s) ==
    IF a = "action_count_people"
    THEN PeopleRest(s, People_filteringJSON(s.foi, data["people"]).nop)
    ELSE GroupsRest(s, Groups_filteringJSON(s.foi, data["groups"]).nop)

\* the second run, so far o, returns from update with s and from run with r
OtherReturned(o, s, r) ==
    other' = [o EXCEPT !.pc = "done", !.foi = s.foi, !.ret = s.ret,
                       !.current_group = s.current_group,
                       !.line_flag = s.line_flag,
                       !.nop = r.nop,
                       !.sent = @ \o r.sent]

\* the second run, so far o, has come to the return of update
OtherReturn(o, s) == OtherReturned(o, s, Rest(other.action, s))

\* the second run, so far o, has executed the loop body, which left s
OtherStep(o, s) ==
    IF s.ret = False
    THEN OtherReturn(o, s)
    ELSE other' = [o EXCEPT !.foi = s.foi, !.current_group = s.current_group,
                            !.line_flag = s.line_flag, !.sent = @ \o s.said]

\* run of the second turn up to the call of update
OtherBegin(a) ==
    /\ other.pc = "idle"
    /\ other' = [other EXCEPT !.pc = "loop", !.action = a,
                              !.foi = [k \in (IF a = "action_count_people"
                                              THEN PeopleKeys ELSE GroupKeys) |->
                                          Restore(other.slots[k])]]
    /\ UNCHANGED <<pc, action, slots, foi, entities, current_group, line_flag, ret, sent,
                   writes, nread, arrival, data, doi, nop, raised>>

\* one iteration of the update of the second turn
OtherReadEntity(e) ==
    /\ other.pc = "loop"
    /\ nread < MaxEntities
    /\ nread' = nread + 1
    /\ OtherStep([other EXCEPT !.entities = Append(@, e),
                               !.overlap = @ \/ (pc = "loop" /\ entities # <<>>)],
                 LoopBody(other.action, OtherCur, e, Len(other.entities) + 1))
    /\ UNCHANGED <<pc, action, slots, foi, entities, current_group, line_flag, ret, sent,
                   writes, arrival, data, doi, nop, raised>>

\* the stream of the second turn is exhausted
OtherEndOfStream ==
    /\ other.pc = "loop"
    /\ OtherReturn(other, AfterLoop(other.action, OtherCur))
    /\ UNCHANGED <<pc, action, slots, foi, entities, current_group, line_flag, ret, sent,
                   writes, nread, arrival, data, doi, nop, raised>>

\* run of action a as a whole, on the entities es and a tracker with the
\* given slot values: what update returned, the field map, the count and
\* the messages sent (actions.py lines 76-93 and 343-360)
Run(a, es, values) ==
    LET f == [k \in (IF a = "action_count_people" THEN PeopleKeys ELSE GroupKeys) |->
                 Restore(values[k])]
        u == IF a = "action_count_people" THEN People_update(es, f) ELSE Groups_update(es, f)
    IN  [ret |-> u.ret, foi |-> u.foi, nop |-> Rest(a, u).nop, sent |-> Rest(a, u).sent]

-----------------------------------------------------------------------------
(* Specifications *)

\* no action has run
NoRun ==
    /\ pc = "idle"
    /\ action = "none"
    /\ foi = PeopleFoi
    /\ entities = <<>>
    /\ current_group = <<>>
    /\ line_flag = FALSE
    /\ ret = None
    /\ sent = <<>>
    /\ writes = <<>>
    /\ nread = 0
    /\ arrival = <<>>
    /\ doi = None
    /\ nop = 0
    /\ raised = None

\* a new conversation: every slot None, no action has run
Init ==
    /\ NoRun
    /\ other = NoTurn([k \in SlotKeys |-> None])
    /\ slots = [k \in SlotKeys |-> None]
    /\ data = Database

\* a conversation of people-counting turns and resets
Next ==
    \/ BeginCountPeople
    \/ \E e \in PeopleEntities : PeopleReadEntity(e)
    \/ PeopleEndOfStream
    \/ Reset

Spec == Init /\ [][Next]_vars

\* a conversation of group-counting turns and resets
NextGroups ==
    \/ BeginCountGroups
    \/ \E e \in GroupEntities : GroupsReadEntity(e)
    \/ GroupsEndOfStream
    \/ Reset

SpecGroups == Init /\ [][NextGroups]_vars

\* a conversation of counting turns of both kinds and resets
NextAll ==
    \/ BeginCountPeople
    \/ \E e \in PeopleEntities : PeopleReadEntity(e)
    \/ PeopleEndOfStream
    \/ BeginCountGroups
    \/ \E e \in GroupEntities : GroupsReadEntity(e)
    \/ GroupsEndOfStream
    \/ Reset

SpecAll == Init /\ [][NextAll]_vars

\* the records a dataset file may hold
PersonRecords ==
    {Person("male", TRUE, FALSE, <<1, 1, 1>>),
     Person("female", FALSE, TRUE, <<1, 2, 1>>),
     Person("male", FALSE, FALSE, <<4, 3, 4>>),
     Person("female", TRUE, TRUE, <<2>>),
     Person("male", TRUE, TRUE, <<>>)}
GroupRecords == {Group(1, 3), Group(2, 5), Group(3, 7), Group(4, 5)}

\* the lists of at most MaxRecords records
Lists(S) == UNION {[1..n -> S] : n \in 0..MaxRecords}

\* slot values a conversation can have persisted
SlotMap(g, b, h, l1, l2, sc) ==
    [k \in SlotKeys |->
        CASE k = "gender" -> g
          [] k = "bag" -> b
          [] k = "hat" -> h
          [] k = "line1_passages" -> l1
          [] k = "line2_passages" -> l2
          [] k = "score" -> sc
          [] OTHER -> None]
PeopleSlotMaps ==
    {SlotMap(g, b, h, l1, l2, None) :
        g \in {None, Str("male"), Str("female")},
        b \in {None, True, False},
        h \in {None, True, False},
        l1 \in {None, List(2, TRUE), List(2, FALSE)},
        l2 \in {None, List(1, FALSE)}}
GroupsSlotMaps ==
    {SlotMap(None, None, None, None, None, sc) :
        sc \in {None, List(5, TRUE), List(5, FALSE)}}

\* a turn that finds any persisted field map and any dataset
InitAny ==
    /\ NoRun
    /\ other = NoTurn([k \in SlotKeys |-> None])
    /\ \/ /\ slots \in PeopleSlotMaps
           /\ data \in {[Database EXCEPT !["people"] = p] : p \in Lists(PersonRecords)}
       \/ /\ slots \in GroupsSlotMaps
           /\ data \in {[Database EXCEPT !["groups"] = g] : g \in Lists(GroupRecords)}

\* counting turns whose message carries no entity
NextFilter ==
    \/ BeginCountPeople
    \/ PeopleEndOfStream
    \/ BeginCountGroups
    \/ GroupsEndOfStream

SpecFilter == InitAny /\ [][NextFilter]_vars

-----------------------------------------------------------------------------
(* Vocabulary of the properties *)

PeopleRun == action = "action_count_people"
GroupsRun == action = "action_count_groups"

\* the run has ended: update returned and run returned its SlotSet events
Returned == pc = "idle" /\ ret # None

IsKind(i, k) == entities[i].entity = k

\* the entity kinds that take a buffered negation as their scope
Consumes(i) == entities[i].entity \in {"clothing", "gender", "passages", "line"}

\* a negation entity precedes entity p with no clothing, gender, passages
\* or line entity between the two
NewNegationBefore(p) ==
    \E j \in 1..(p - 1) :
        /\ IsKind(j, "negation")
        /\ \A k \in (j + 1)..(p - 1) : ~Consumes(k)

\* the assignments in ws committed for entity i (alone or in its group)
WritesIn(ws, i) == {k \in 1..Len(ws) : i \in ws[k].parts}
WritesOf(i) == WritesIn(writes, i)

OtherGender(v) == IF v = "male" THEN "female" ELSE "male"

\* the assignment stores a negated meaning
Negated(w) ==
    CASE w.value.tag = "bool" -> ~w.value.b
      [] w.value.tag = "tuple" -> w.value.flag = False
      [] w.value.tag = "str" -> \E p \in w.parts : entities[p].value # w.value.s
      [] OTHER -> FALSE

\* the line names of the stream that name a configured line when compared
\* case-insensitively, with the field that holds the line's passages
FieldOfLine == ("alpha line" :> "line1_passages") @@ ("Beta Line" :> "line2_passages")
Configured(v) == v \in DOMAIN FieldOfLine

\* entity e is one whose resolution assigns field k
Targets(e, k) ==
    \/ e.entity = "clothing" /\ e.value \in {"hat", "bag"} /\ e.value = k
    \/ e.entity = "gender" /\ k = "gender"
    \/ e.entity = "line" /\ Configured(e.value) /\ FieldOfLine[e.value] = k

\* the value last assigned to field k in ws, or dflt if ws assigns none
LastWritten(ws, k, dflt) ==
    LET ks == {j \in 1..Len(ws) : ws[j].field = k}
    IN  IF ks = {} THEN dflt
        ELSE ws[CHOOSE j \in ks : \A m \in ks : m <= j].value

\* the field map before the turn, as the instance loads it from the slots
Prior == [k \in PeopleKeys |-> Restore(slots[k])]

-----------------------------------------------------------------------------
(* C1: on every stream for which TrackingPeople.update returns True, a     *)
(* negation entity inverts the entity that immediately follows it,         *)
(* whatever precedes the negation: clothing(hat)/clothing(bag) is          *)
(* committed as False, gender as the other gender, and the line group of a *)
(* passages or line entity with direction flag False.                      *)
C1_NegationInvertsNext ==
    (Returned /\ PeopleRun /\ ret = True) =>
        \A i \in 1..(Len(entities) - 1) :
            IsKind(i, "negation") =>
                LET e == entities[i + 1]
                IN  /\ (e.entity = "clothing" /\ e.value \in {"hat", "bag"}) =>
                            \E k \in WritesOf(i + 1) :
                                writes[k].field = e.value /\ writes[k].value = False
                    /\ (e.entity = "gender") =>
                            \E k \in WritesOf(i + 1) :
                                /\ writes[k].field = "gender"
                                /\ writes[k].value = Str(OtherGender(e.value))
                    /\ (e.entity \in {"passages", "line"}) =>
                            \E k \in WritesOf(i + 1) :
                                writes[k].value.tag = "tuple" /\ writes[k].value.flag = False

(* C2: negation does not leak between clauses.  [negation, clothing(hat)]  *)
(* gives hat False and [clothing(hat)] gives hat True; every value         *)
(* committed with negated meaning belongs to an entity that a negation     *)
(* precedes with no other resolving entity between them, so an entity or   *)
(* line group after a consumed negation is affirmed unless a new negation  *)
(* precedes it.                                                            *)
C2_NoNegationLeak ==
    PeopleRun =>
        /\ \A k \in 1..Len(writes) :
               Negated(writes[k]) => \E p \in writes[k].parts : NewNegationBefore(p)
        /\ (Returned /\ entities = <<Ent("negation", "not"), Ent("clothing", "hat")>>)
               => (ret = True /\ foi["hat"] = False)
        /\ (Returned /\ entities = <<Ent("clothing", "hat")>>)
               => (ret = True /\ foi["hat"] = True)
        /\ (Returned /\ entities = <<Ent("negation", "not"), Ent("clothing", "hat"),
                                     Ent("clothing", "bag")>>)
               => (ret = True /\ foi["hat"] = False /\ foi["bag"] = True)
        /\ (Returned /\ entities = <<Ent("negation", "not"), Ent("line", "alpha line"),
                                     Ent("clothing", "hat")>>)
               => (ret = True /\ foi["hat"] = True
                   /\ foi["line1_passages"] = Tuple(1, FALSE))

C2_Witness ==
    /\ Returned /\ PeopleRun /\ ret = True
    /\ entities = <<Ent("negation", "not"), Ent("clothing", "hat"), Ent("clothing", "bag")>>
    /\ foi["hat"] = False
    /\ foi["bag"] = True

(* C3: a line group commutes.  For a parseable quantity q and a configured *)
(* line l the streams [passages(q), line(l)] and [line(l), passages(q)]    *)
(* both make update return True and both leave the prior field map changed *)
(* in the field of l only, which becomes (value(q), True); with twice and  *)
(* the alpha line that is line1_passages = (2, True).                      *)
C3_Pair(es, l) ==
    \/ es = <<Ent("passages", "twice"), Ent("line", l)>>
    \/ es = <<Ent("line", l), Ent("passages", "twice")>>

C3_LineGroupCommutes ==
    [][\A l \in DOMAIN FieldOfLine :
        (pc = "loop" /\ pc' = "idle" /\ PeopleRun /\ C3_Pair(entities', l)) =>
            /\ ret' = True
            /\ foi' = [Prior EXCEPT ![FieldOfLine[l]] = Tuple(2, TRUE)]]_vars

C3_Witness ==
    /\ Returned /\ PeopleRun /\ ret = True
    /\ entities = <<Ent("line", "alpha line"), Ent("passages", "twice")>>
    /\ foi["line1_passages"] = Tuple(2, TRUE)
    /\ foi["hat"] # None

(* C4: a stream without grouped kinds never fails and never touches the    *)
(* line/score fields: with no passages and no line entity                  *)
(* TrackingPeople.update returns True and assigns no line field; with no   *)
(* mark entity TrackingGroups.update returns True and does not assign      *)
(* score.                                                                  *)
C4_NoGroupedKindNeverFails ==
    /\ (Returned /\ PeopleRun
            /\ \A i \in 1..Len(entities) : entities[i].entity \notin {"passages", "line"})
        => /\ ret = True
           /\ \A k \in 1..Len(writes) : writes[k].field \in {"gender", "bag", "hat"}
    /\ (Returned /\ GroupsRun
            /\ \A i \in 1..Len(entities) : entities[i].entity # "mark")
        => /\ ret = True
           /\ writes = <<>>

(* C5: only the failing group is discarded.  When TrackingPeople.update    *)
(* returns False, every resolvable clothing or gender entity of the stream *)
(* (none of which can belong to the failing line group) has been           *)
(* committed, whether it stands before or after the failing group.         *)
C5_OnlyFailingGroupDiscarded ==
    (Returned /\ PeopleRun /\ ret = False) =>
        \A i \in 1..Len(entities) :
            (\/ entities[i].entity = "gender"
             \/ entities[i].entity = "clothing" /\ entities[i].value \in {"hat", "bag"})
                => WritesOf(i) # {}

(* C6: earlier commits survive a later failure.  The step in which         *)
(* TrackingPeople.update returns False assigns no field, so every field    *)
(* holds the value last written earlier in the stream (or its prior        *)
(* value), and ActionCountPeople.run returns exactly those values in its   *)
(* SlotSet events.                                                         *)
C6_EarlierCommitsSurvive ==
    [][(pc = "loop" /\ PeopleRun /\ ret' = False) =>
            /\ foi' = foi
            /\ writes' = writes
            /\ \A k \in PeopleKeys :
                /\ foi'[k] = LastWritten(writes, k, Prior[k])
                /\ slots'[k] = SlotSet(foi[k])]_vars

C6_Witness ==
    /\ Returned /\ PeopleRun /\ ret = False
    /\ entities = <<Ent("clothing", "hat"), Ent("line", "omega line")>>
    /\ slots["hat"] = True

(* C7: an unknown line name fails interpretation without side effects.     *)
(* update never returns True on a stream that holds a line entity whose    *)
(* name is not a configured identifier (compared case-insensitively);      *)
(* while such a line sits in the buffer no step assigns any field, and the *)
(* step that ends the run returns False and persists the fields as they    *)
(* were before the failing flush.                                          *)
C7_UnknownLineFails ==
    /\ []((PeopleRun /\ ret = True) =>
            \A i \in 1..Len(entities) :
                IsKind(i, "line") => Configured(entities[i].value))
    /\ [][(/\ pc = "loop" /\ PeopleRun
           /\ Has(current_group, "line")
           /\ ~Configured(Get(current_group, "line").value)) =>
                /\ foi' = foi
                /\ writes' = writes
                /\ pc' = "idle" =>
                    /\ ret' = False
                    /\ \A k \in PeopleKeys : slots'[k] = SlotSet(foi[k])]_vars

C7_Witness ==
    /\ Returned /\ PeopleRun /\ ret = False
    /\ entities = <<Ent("gender", "male"), Ent("line", "omega line")>>
    /\ Kinds(sent) = <<"unknown_line">>
    /\ foi["gender"] = Str("male")
    /\ foi["hat"] = True
    /\ slots["hat"] = True

(* C8: in the people domain every failure emits exactly one clarification  *)
(* message.  When TrackingPeople.update returns False exactly one message  *)
(* was sent during the update, also when both the quantity and the line of *)
(* the failing group are invalid; when it returns True, update sent none   *)
(* (the only message of the run is the result run sends afterwards).       *)
C8_OneClarificationPeople ==
    PeopleRun =>
        /\ pc = "loop" => sent = <<>>
        /\ (Returned /\ ret = False) =>
                /\ Len(sent) = 1
                /\ sent[1].kind \in {"frequency", "unknown_line", "no_line"}
        /\ (Returned /\ ret = True) => Kinds(sent) = <<"result">>

C8_Witness ==
    /\ Returned /\ PeopleRun /\ ret = False
    /\ entities = <<Ent("passages", "often"), Ent("line", "omega line")>>
    /\ Kinds(sent) = <<"frequency">>

(* C9: in the group-scoring domain every failure emits exactly one         *)
(* clarification message: when TrackingGroups.update returns False, one    *)
(* message was sent during that update.                                    *)
C9_OneClarificationGroups ==
    (Returned /\ GroupsRun /\ ret = False) => Len(sent) = 1

(* C10: the interpreter only overwrites the fields it recognizes in the    *)
(* current stream.  When a turn of ActionCountPeople ends, each persisted  *)
(* field holds the value last committed in this turn, or is unchanged if   *)
(* the turn committed none; a field changes only if an entity of the       *)
(* stream targeting it was resolved; the score slot is not touched; and    *)
(* the slots do not change while update is running.                        *)
C10_OnlyRecognizedFieldsChange ==
    [][PeopleRun =>
        /\ (pc = "loop" /\ pc' = "loop") => slots' = slots
        /\ (pc = "loop" /\ pc' = "idle") =>
            /\ slots'["score"] = slots["score"]
            /\ \A k \in PeopleKeys :
                /\ slots'[k] = IF \E j \in 1..Len(writes') : writes'[j].field = k
                               THEN SlotSet(LastWritten(writes', k, None))
                               ELSE slots[k]
                /\ slots'[k] # slots[k] =>
                       \E i \in 1..Len(entities') :
                           /\ Targets(entities'[i], k)
                           /\ WritesIn(writes', i) # {}]_vars

C10_Witness ==
    /\ Returned /\ PeopleRun
    /\ slots["hat"] = False
    /\ slots["gender"] = Str("female")
    /\ writes # <<>>
    /\ \A i \in 1..Len(entities) : ~Targets(entities[i], "hat")

-----------------------------------------------------------------------------
\* the fields that hold a (number, flag) threshold
ThresholdKeys == {"line1_passages", "line2_passages", "line3_passages", "line4_passages",
                  "score"}

\* v is None or a pair (of the given container type) of a number and a bool
WellFormed(v, container) ==
    \/ v = None
    \/ /\ v.tag = container
       /\ v.n.tag = "int"
       /\ v.flag.tag = "bool"

(* C11: a threshold field is never half-formed.  In every state of a       *)
(* conversation of TrackingPeople.update and TrackingGroups.update calls,  *)
(* successful or failed, each of line1_passages..line4_passages and score  *)
(* is None or a pair whose first component is a number and whose second    *)
(* component is a boolean, in the instance's field map (a tuple) and in    *)
(* the persisted one (a list).                                             *)
C11_ThresholdNeverHalfFormed ==
    /\ \A k \in DOMAIN foi \cap ThresholdKeys : WellFormed(foi[k], "tuple")
    /\ \A k \in ThresholdKeys : WellFormed(slots[k], "list")

C11_Witness ==
    /\ Returned /\ GroupsRun /\ ret = False
    /\ foi["score"] = Tuple(5, TRUE)
    /\ slots["score"] = List(5, TRUE)
    /\ slots["line1_passages"] = List(1, TRUE)

\* the fields that hold the passages of a line
LineKeys == ThresholdKeys \ {"score"}

\* the entities of kind k among those assignment w was committed for
PartsOf(w, k) == {p \in w.parts : entities[p].entity = k}

\* no negation was buffered when any of the entities of w arrived
Affirmed(w) == \A p \in w.parts : "negation" \notin arrival[p]

(* C12: default quantity.  A line group flushed without a passages entity  *)
(* commits quantity 1 with affirmed quantity polarity (the flag is the     *)
(* polarity of the line alone); the stream [line(beta line)] makes update  *)
(* return True with line2_passages = (1, True); and an absent quantity is  *)
(* never reported as an error: a stream without passages entity never gets *)
(* the invalid-frequency message, and a buffer that fails with a line and  *)
(* no passages fails for its line name.                                    *)
C12_DefaultQuantity ==
    PeopleRun =>
        /\ \A j \in 1..Len(writes) :
               (writes[j].field \in LineKeys /\ PartsOf(writes[j], "passages") = {}) =>
                   /\ writes[j].value.n = Num(1)
                   /\ writes[j].value.flag = Bool(Affirmed(writes[j]))
        /\ (Returned /\ entities = <<Ent("line", "Beta Line")>>) =>
               /\ ret = True
               /\ foi["line2_passages"] = Tuple(1, TRUE)
        /\ (\A i \in 1..Len(entities) : ~IsKind(i, "passages")) =>
               \A m \in 1..Len(sent) : sent[m].kind # "frequency"
        /\ (Returned /\ ret = False
                /\ Has(current_group, "line") /\ ~Has(current_group, "passages")) =>
               /\ Kinds(sent) = <<"unknown_line">>
               /\ ~Configured(Get(current_group, "line").value)

C12_Witness ==
    /\ Returned /\ PeopleRun /\ ret = True
    /\ entities = <<Ent("line", "Beta Line")>>
    /\ foi["line2_passages"] = Tuple(1, TRUE)
    /\ Kinds(sent) = <<"result">>

(* C13: the direction flag committed by a line-group flush is (quantity    *)
(* polarity AND line polarity): it is True exactly when no negation was    *)
(* buffered when the group's passages entity arrived and none was buffered *)
(* when its line entity arrived; a negation before either part or before   *)
(* both yields False (two negations in one group do not cancel).           *)
C13_DirectionIsConjunction ==
    PeopleRun =>
        /\ \A j \in 1..Len(writes) :
               writes[j].field \in LineKeys =>
                   writes[j].value.flag = Bool(Affirmed(writes[j]))
        /\ (Returned /\ entities = <<Ent("negation", "not"), Ent("passages", "twice"),
                                     Ent("negation", "not"), Ent("line", "alpha line")>>) =>
               (ret = True /\ foi["line1_passages"] = Tuple(2, FALSE))
        /\ (Returned /\ entities = <<Ent("negation", "not"), Ent("passages", "twice"),
                                     Ent("line", "alpha line")>>) =>
               (ret = True /\ foi["line1_passages"] = Tuple(2, FALSE))
        /\ (Returned /\ entities = <<Ent("passages", "twice"), Ent("negation", "not"),
                                     Ent("line", "alpha line")>>) =>
               (ret = True /\ foi["line1_passages"] = Tuple(2, FALSE))

C13_Witness ==
    /\ Returned /\ PeopleRun /\ ret = True
    /\ entities = <<Ent("negation", "not"), Ent("passages", "twice"),
                    Ent("negation", "not"), Ent("line", "alpha line")>>
    /\ foi["line1_passages"] = Tuple(2, FALSE)
    /\ writes = <<Write("line1_passages", Tuple(2, FALSE), {2, 4})>>
    /\ arrival = <<{}, {"negation"}, {"passages"}, {"passages", "negation"}>>

\* this step is the loop iteration of TrackingPeople.update /
\* TrackingGroups.update that reads entity e
PeopleReads(e) == pc = "loop" /\ PeopleRun /\ entities' = Append(entities, e)
GroupsReads(e) == pc = "loop" /\ GroupsRun /\ entities' = Append(entities, e)

\* the buffer holds a negation when the clothing or gender entity read by
\* this step is resolved: one is buffered at its arrival, and no line group
\* is open (an open group is flushed and the whole buffer cleared before
\* the entity is resolved)
NegationAtResolve == Has(current_group, "negation") /\ ~line_flag

\* the assignments made by this step, and those among them made for the
\* entity it reads
NewWrites == SubSeq(writes', Len(writes) + 1, Len(writes'))
Resolved == SelectSeq(NewWrites, LAMBDA w : Len(entities') \in w.parts)

(* C14: gender resolve.  With no buffered negation the gender field is set *)
(* to the entity's value verbatim; with a buffered negation gender(male)   *)
(* stores "female" and gender(female) stores "male"; in both cases the     *)
(* buffer, the negation included, is cleared afterwards.                   *)
C14_GenderResolve ==
    [][\A v \in {"male", "female"} :
        (PeopleReads(Ent("gender", v)) /\ ret' # False) =>
            /\ foi'["gender"] = IF NegationAtResolve THEN Str(OtherGender(v)) ELSE Str(v)
            /\ Resolved = <<Write("gender", foi'["gender"], {Len(entities')})>>
            /\ current_group' = <<>>]_vars

C14_Witness ==
    /\ Returned /\ PeopleRun /\ ret = True
    /\ entities = <<Ent("negation", "not"), Ent("gender", "male"), Ent("gender", "female")>>
    /\ writes = <<Write("gender", Str("female"), {2}), Write("gender", Str("female"), {3})>>
    /\ current_group = <<>>

(* C15: clothing resolve.  A clothing entity with value "bag" or "hat"     *)
(* sets exactly that field, to True when no negation is buffered and to    *)
(* False when one is; a clothing entity with any other value leaves every  *)
(* field unchanged.  The only other assignment of the step is the flush of *)
(* the line group that was open when the entity arrived.                   *)
C15_ClothingResolve ==
    [][\A v \in {"hat", "bag", "scarf"} :
        (PeopleReads(Ent("clothing", v)) /\ ret' # False) =>
            /\ Resolved = IF v \in {"hat", "bag"}
                          THEN <<Write(v, Bool(~NegationAtResolve), {Len(entities')})>>
                          ELSE <<>>
            /\ \A k \in PeopleKeys : foi'[k] = LastWritten(NewWrites, k, foi[k])
            /\ \A j \in 1..Len(NewWrites) :
                   Len(entities') \notin NewWrites[j].parts =>
                       (line_flag /\ NewWrites[j].field \in LineKeys)
            /\ (~line_flag /\ v \notin {"hat", "bag"}) => foi' = foi]_vars

C15_Witness ==
    /\ Returned /\ PeopleRun /\ ret = True
    /\ entities = <<Ent("negation", "not"), Ent("clothing", "bag"), Ent("clothing", "scarf"),
                    Ent("clothing", "hat")>>
    /\ writes = <<Write("bag", False, {2}), Write("hat", True, {4})>>
    /\ foi = [PeopleFoi EXCEPT !["bag"] = False, !["hat"] = True]

\* the mark texts that convert to a number, with the number
MarkValue == ("5" :> 5) @@ ("7" :> 7)

(* C16: numeric-mark flush.  In TrackingGroups.update a mark entity whose  *)
(* value converts to a number n writes score = (n, True) when no negation  *)
(* is buffered at its arrival and score = (n, False) when one is; a mark   *)
(* whose value does not convert makes update return False and leaves score *)
(* at its previous value.                                                  *)
C16_NumericMarkFlush ==
    [][\A v \in MarkTexts :
        GroupsReads(Ent("mark", v)) =>
            IF v \in DOMAIN MarkValue
            THEN /\ ret' # False
                 /\ foi'["score"] = Tuple(MarkValue[v], ~Has(current_group, "negation"))
                 /\ NewWrites = <<Write("score", foi'["score"], {Len(entities')})>>
            ELSE /\ ret' = False
                 /\ pc' = "idle"
                 /\ foi'["score"] = foi["score"]
                 /\ slots'["score"] = SlotSet(foi["score"])
                 /\ NewWrites = <<>>]_vars

C16_Witness ==
    /\ Returned /\ GroupsRun /\ ret = False
    /\ entities = <<Ent("negation", "not"), Ent("mark", "5"), Ent("mark", "high")>>
    /\ foi["score"] = Tuple(5, FALSE)
    /\ slots["score"] = List(5, FALSE)

-----------------------------------------------------------------------------
(* The query evaluator *)

\* filteringJSON has run and returned doi
Filtered == Returned /\ ret = True /\ doi # None

\* the number of occurrences of line l in trajectory t
RECURSIVE Occurrences(_, _)
Occurrences(t, l) ==
    IF t = <<>> THEN 0
    ELSE (IF Head(t) = l THEN 1 ELSE 0) + Occurrences(Tail(t), l)

\* the line a line field counts
LineNo == ("line1_passages" :> 1) @@ ("line2_passages" :> 2)
          @@ ("line3_passages" :> 3) @@ ("line4_passages" :> 4)

\* the record of the dataset a returned record was made from
Base(record) == [k \in {"gender", "bag", "hat", "trajectory"} |-> record[k]]
Bases(records) == [i \in 1..Len(records) |-> Base(records[i])]

\* person p passes the equality constraints / the thresholds of field map f
EqMatch(f, p) ==
    /\ f["gender"] = None \/ p.gender = f["gender"]
    /\ f["bag"] = None \/ p.bag = f["bag"]
    /\ f["hat"] = None \/ p.hat = f["hat"]
ThrMatch(f, p) ==
    \A k \in LineKeys :
        \/ f[k] = None
        \/ f[k].flag = True /\ Occurrences(p.trajectory, LineNo[k]) >= f[k].n.n
        \/ f[k].flag = False /\ Occurrences(p.trajectory, LineNo[k]) < f[k].n.n

\* field map f sets field k only, to v
Only(f, k, v) == f = [PeopleFoi EXCEPT ![k] = v]

(* C17: equality filter.  TrackingPeople.filteringJSON keeps a person      *)
(* exactly when, for each of gender, bag, hat that is set (not None) in    *)
(* the field map, the person's value equals the field's value: every       *)
(* returned person passes, and where no line field is set the returned     *)
(* list is the list of the persons that pass.  An unset field imposes no   *)
(* constraint; bag = False and hat = False are constraints; genders        *)
(* [male, female, male] with gender = female give 1 match and nop = 1.     *)
C17_EqualityFilter ==
    (Filtered /\ PeopleRun) =>
        /\ \A i \in 1..Len(doi.items) : EqMatch(foi, doi.items[i])
        /\ (\A k \in LineKeys : foi[k] = None) =>
               Bases(doi.items) = SelectSeq(data["people"], LAMBDA p : EqMatch(foi, p))
        /\ \A k \in {"bag", "hat"} :
               foi[k] = False => \A i \in 1..Len(doi.items) : doi.items[i][k] = False
        /\ (/\ Only(foi, "gender", Str("female"))
            /\ Len(data["people"]) = 3
            /\ data["people"][1].gender = Str("male")
            /\ data["people"][2].gender = Str("female")
            /\ data["people"][3].gender = Str("male")) =>
               /\ nop = 1
               /\ Bases(doi.items) = <<data["people"][2]>>

C17_Witness ==
    /\ Filtered /\ PeopleRun
    /\ data = Database
    /\ Only(foi, "gender", Str("female"))
    /\ nop = 1
    /\ Bases(doi.items) = <<Person("female", FALSE, TRUE, <<1, 2, 1>>)>>

(* C18: threshold filter.  For each set line field (bound, flag),          *)
(* filteringJSON keeps a person exactly when the number of occurrences of  *)
(* that line in the person's trajectory is >= bound if flag is True and    *)
(* < bound if flag is False, conjunctively over all set line fields: the   *)
(* returned list is the list of the persons passing the equality filter    *)
(* that pass every threshold.  A person whose trajectory contains line 1   *)
(* three times is kept under (2, True) and removed under (2, False).       *)
C18_ThresholdFilter ==
    (Filtered /\ PeopleRun) =>
        /\ Bases(doi.items) =
               SelectSeq(SelectSeq(data["people"], LAMBDA p : EqMatch(foi, p)),
                         LAMBDA p : ThrMatch(foi, p))
        /\ \A i \in 1..Len(data["people"]) :
               LET p == data["people"][i]
               IN  Occurrences(p.trajectory, 1) = 3 =>
                       /\ Only(foi, "line1_passages", Tuple(2, TRUE)) =>
                              \E j \in 1..Len(doi.items) : Base(doi.items[j]) = p
                       /\ Only(foi, "line1_passages", Tuple(2, FALSE)) =>
                              \A j \in 1..Len(doi.items) : Base(doi.items[j]) # p

C18_Witness ==
    /\ Filtered /\ PeopleRun
    /\ data = Database
    /\ Only(foi, "line1_passages", Tuple(2, FALSE))
    /\ nop = 1
    /\ Bases(doi.items) = <<Person("male", FALSE, FALSE, <<4, 3, 4>>)>>

\* a is b with some of its elements left out
RECURSIVE IsSubsequence(_, _)
IsSubsequence(a, b) ==
    IF a = <<>> THEN TRUE
    ELSE IF b = <<>> THEN FALSE
    ELSE IF Head(a) = Head(b) THEN IsSubsequence(Tail(a), Tail(b))
    ELSE IsSubsequence(a, Tail(b))

(* C19: the evaluator's output preserves dataset order and its count       *)
(* matches.  For every field map the list returned by filteringJSON        *)
(* (people and groups) is a subsequence of the dataset's record list, in   *)
(* the same relative order, and nop is the length of that list.            *)
C19_OrderAndCount ==
    Filtered =>
        /\ nop = Len(doi.items)
        /\ PeopleRun => IsSubsequence(Bases(doi.items), data["people"])
        /\ GroupsRun => IsSubsequence(doi.items, data["groups"])

C19_Witness ==
    /\ Filtered /\ GroupsRun
    /\ data["groups"] = <<Group(3, 7), Group(1, 3), Group(2, 5)>>
    /\ foi["score"] = Tuple(5, TRUE)
    /\ doi.items = <<Group(3, 7), Group(2, 5)>>
    /\ nop = 2

(* C20: with no field set TrackingPeople.filteringJSON returns the whole   *)
(* dataset, and every returned record carries the four derived crossing    *)
(* counts line1_passages..line4_passages.                                  *)
C20_NoFieldWholeDataset ==
    (Filtered /\ PeopleRun) =>
        /\ foi = PeopleFoi => Bases(doi.items) = data["people"]
        /\ \A i \in 1..Len(doi.items) :
               \A k \in LineKeys :
                   /\ k \in DOMAIN doi.items[i]
                   /\ doi.items[i][k] = Num(Occurrences(doi.items[i].trajectory, LineNo[k]))

C20_Witness ==
    /\ Filtered /\ PeopleRun
    /\ foi = PeopleFoi
    /\ data = Database
    /\ nop = 3
    /\ doi.items[1]["line1_passages"] = Num(3)
    /\ doi.items[3]["line4_passages"] = Num(2)

\* group g passes the score threshold of field map f
ScoreMatch(f, g) ==
    \/ f["score"] = None
    \/ f["score"].flag = True /\ g.score.n >= f["score"].n.n
    \/ f["score"].flag = False /\ g.score.n < f["score"].n.n

(* C21: group-domain filter.  TrackingGroups.filteringJSON with            *)
(* score = (bound, flag) keeps a group exactly when its score is >= bound  *)
(* if flag is True and < bound if flag is False; with score unset it       *)
(* returns all groups.                                                     *)
C21_GroupFilter ==
    (Filtered /\ GroupsRun) =>
        /\ doi.items = SelectSeq(data["groups"], LAMBDA g : ScoreMatch(foi, g))
        /\ foi["score"] = None => doi.items = data["groups"]

C21_Witness ==
    /\ Filtered /\ GroupsRun
    /\ data["groups"] = <<Group(1, 3), Group(2, 5), Group(3, 7)>>
    /\ foi["score"] = Tuple(5, FALSE)
    /\ doi.items = <<Group(1, 3)>>

-----------------------------------------------------------------------------
(* Conversations over frequency adverbs *)

\* frequency adverbs of every shape adverb_to_number tells apart
AdverbTexts == {"once", "one time", "twice", "5 times", "41 times", "forty-one times",
                "many times", "often", "5 times times"}

AdverbEntities ==
    {Ent("passages", v) : v \in AdverbTexts} \cup {Ent("line", "alpha line")}

\* a search session about the crossings of one line: counting turns, then
\* the submit of the form or a reset
NextAdverbs ==
    \/ BeginCountPeople
    \/ \E e \in AdverbEntities : PeopleReadEntity(e)
    \/ PeopleEndOfStream
    \/ Submit
    \/ Reset

SpecAdverbs == Init /\ [][NextAdverbs]_vars

\* the positions of the passages entities among the parts of a write
PassagesOf(w) == {p \in w.parts : entities[p].entity = "passages"}

\* what the run shows of the calls of adverb_to_number: a write to a line
\* field holds the number returned for the passages entity it was made from;
\* a run that failed while a passages entity was buffered sent the messages
\* of the call on that entity's text.  `counts` gives the number expected of
\* each text that converts; every other text is expected to give None and
\* one message echoing it.
ConvertsAs(counts) ==
    /\ \A i \in 1..Len(writes) : \A p \in PassagesOf(writes[i]) :
           /\ entities[p].value \in DOMAIN counts
           /\ writes[i].value.n = Num(counts[entities[p].value])
    /\ (Returned /\ ret = False /\ Has(current_group, "passages")) =>
           LET adverb == Get(current_group, "passages").value
           IN  IF adverb \in DOMAIN counts
               THEN \A m \in 1..Len(sent) : sent[m].kind \notin {"frequency"}
               ELSE sent = <<Msg("frequency", <<adverb>>)>>

\* "once", "twice" and "<N> times" with N digits or a cardinal word
CountOfShape ==
    [a \in {"once", "twice", "5 times", "41 times", "forty-one times"} |->
        CASE a = "once" -> 1 [] a = "twice" -> 2 [] a = "5 times" -> 5
          [] a = "41 times" -> 41 [] a = "forty-one times" -> 41]

\* C22 as stated: adverb_to_number returns 1 for "once", 2 for "twice" and N
\* for "<N> times" when N parses; for every input of any other shape it
\* returns None and sends one clarification message echoing the input.
C22_OtherShapesFail == ConvertsAs(CountOfShape)

\* the texts that convert: also "one time", and a text ending in " times"
\* by the part before its first " times"
CountOfText ==
    [a \in DOMAIN CountOfShape \cup {"one time", "5 times times"} |->
        IF a \in DOMAIN CountOfShape THEN CountOfShape[a]
        ELSE IF a = "one time" THEN 1 ELSE 5]

\* C22 (amended): adverb_to_number returns 1 for "once" and for "one time",
\* 2 for "twice", and for any other text ending in " times" the number the
\* part before its first " times" parses to, when that part parses as digits
\* or a cardinal word; for every other input it returns None and sends one
\* clarification message that echoes the input text.
C22_AdverbToNumber == ConvertsAs(CountOfText)

C22_Witness ==
    /\ Returned /\ ret = True
    /\ \E i \in 1..Len(writes) : \E p \in PassagesOf(writes[i]) :
           entities[p].value = "one time" /\ writes[i].value.n = Num(1)

-----------------------------------------------------------------------------
(* C23 *)

\* the text of the last message sent
LastText == sent[Len(sent)].text

\* the frequency texts of the attributes of a result: each stands before
\* " the " and the name of its line
RenderedCounts(text) ==
    {<<text[i - 1], LineField(text[i + 1]).s>> :
        i \in {j \in 2..(Len(text) - 1) : text[j] = " the "}}

\* the phrases that introduce a person's crossings in the text of a submit
CrossedPhrases == [k \in Slice(PeopleFoiOrder, 3, 7) |->
                      CASE k = "line1_passages" -> "crossed the alpha line "
                        [] k = "line2_passages" -> ", the beta line "
                        [] k = "line3_passages" -> ", the gamma line "
                        [] k = "line4_passages" -> " and the delta line "]

\* the i-th occurrence of an element of `which` in text, 0 if there is none
Nth(text, which, i) ==
    LET at == {j \in 1..Len(text) : text[j] \in which}
        nth == {j \in at : Cardinality({l \in at : l <= j}) = i}
    IN  IF nth = {} THEN 0 ELSE CHOOSE j \in nth : TRUE

\* the adverb/count pairs the behaviour is specified on
AdverbCountPairs ==
    [a \in {"once", "twice", "5 times", "forty-one times"} |->
        CASE a = "once" -> 1 [] a = "twice" -> 2 [] a = "5 times" -> 5
          [] a = "forty-one times" -> 41]

\* adverb_to_number returns n for the text, and sends nothing
ConvertsTo(text, n) == adverb_to_number(text) = [number |-> Num(n), said |-> <<>>]

\* C23: a count n >= 1 rendered as the narrator renders it (in the result of
\* a counting turn for the count of a line field, in the text of a submit for
\* the crossings of a person found) converts with adverb_to_number to n
\* again; and the texts "once", "twice", "5 times" and "forty-one times"
\* convert to 1, 2, 5 and 41, which render to texts that convert to them.
C23_RoundTrip ==
    /\ (Returned /\ ret = True /\ raised = None) =>
           \A r \in RenderedCounts(LastText) :
               foi[r[2]].n.n >= 1 => ConvertsTo(r[1], foi[r[2]].n.n)
    /\ (action = "action_submit" /\ raised = None /\ nop # 0) =>
           \A i \in 1..nop : \A k \in DOMAIN CrossedPhrases :
               LET n == doi.items[i][k].n
                   at == Nth(LastText, {CrossedPhrases[k]}, i)
               IN  /\ at # 0
                   /\ n >= 1 => ConvertsTo(LastText[at + 1], n)
    /\ \A i \in 1..Len(writes) : \A p \in PassagesOf(writes[i]) :
           entities[p].value \in DOMAIN AdverbCountPairs =>
               LET n == AdverbCountPairs[entities[p].value]
               IN  /\ writes[i].value.n = Num(n)
                   /\ ConvertsTo(passages_string(n), n)

\* a turn has rendered the count 41, written from "forty-one times"
C23_Witness ==
    /\ Returned /\ ret = True
    /\ \E r \in RenderedCounts(LastText) : r[1] = "41 times" /\ foi[r[2]].n = Num(41)
    /\ \E i \in 1..Len(writes) : \E p \in PassagesOf(writes[i]) :
           entities[p].value = "forty-one times"

-----------------------------------------------------------------------------
(* C24 *)

\* the name of the line a line field is about
LineName == [k \in Slice(PeopleFoiOrder, 3, 7) |->
                CASE k = "line1_passages" -> LINE_1 [] k = "line2_passages" -> LINE_2
                  [] k = "line3_passages" -> LINE_3 [] k = "line4_passages" -> LINE_4]

\* the text holds piece a directly followed by piece b
Follows(text, a, b) == \E i \in 1..(Len(text) - 1) : text[i] = a /\ text[i + 1] = b

\* the text holds one of the pieces
Mentions(text, pieces) == \E i \in 1..Len(text) : text[i] \in pieces

\* the text has a phrase for field k of a person
PeoplePhrase(text, k) ==
    CASE k = "gender" -> Mentions(text, {"people of "})
      [] k \in {"bag", "hat"} -> Mentions(text, {k, "no " \o k})
      [] OTHER -> Follows(text, " the ", LineName[k])

\* the text has a phrase for the score of a group
GroupsPhrase(text) == Mentions(text, {"scored at least ", "scored less than "})

\* C24: the text of a result has an attribute phrase for a field exactly when
\* the field is set in the field map (for people: gender, bag, hat and the
\* four line fields; for groups: the score), and rendering it is read-only:
\* the text tells the count the filter computed, and after it the field map
\* still holds what update assigned and is persisted as such, and nop is
\* still the length of the filtered list.
C24_NarratorSetFields ==
    (Returned /\ ret = True /\ raised = None /\ (PeopleRun \/ GroupsRun)) =>
        /\ PeopleRun => \A k \in PeopleKeys : PeoplePhrase(LastText, k) <=> foi[k] # None
        /\ GroupsRun => (GroupsPhrase(LastText) <=> foi.score # None)
        /\ LastText[2] = ToString(Len(doi.items))
        /\ nop = Len(doi.items)
        /\ \A k \in DOMAIN foi :
               /\ foi[k] = LastWritten(writes, k, foi[k])
               /\ slots[k] = SlotSet(foi[k])

\* a result that tells of people without bag who have not crossed the beta
\* line once, and of nothing else
C24_Witness ==
    /\ Returned /\ ret = True /\ PeopleRun
    /\ foi.bag = False /\ foi.hat = None /\ foi.gender = None
    /\ foi.line2_passages = Tuple(1, FALSE)
    /\ Mentions(LastText, {"no bag"})
    /\ Follows(LastText, "have not crossed at least ", "once")
    /\ Follows(LastText, " the ", LINE_2)

-----------------------------------------------------------------------------
(* C25 *)

\* C25: one run of ActionCountPeople.run or ActionCountGroups.run sends at
\* most one message: none while update is looping, after update returned
\* False at most one and no result, after update returned True the result
\* and nothing else.
C25_AtMostOneMessage ==
    (PeopleRun \/ GroupsRun) =>
        /\ Len(sent) <= 1
        /\ pc = "loop" => sent = <<>>
        /\ (Returned /\ ret = False) => \A m \in 1..Len(sent) : sent[m].kind # "result"
        /\ (Returned /\ ret = True /\ raised = None) => Kinds(sent) = <<"result">>

\* a turn whose second clause names no line: the first clause was resolved,
\* the only message is the request to name a line
C25_Witness ==
    /\ Returned /\ ret = False /\ PeopleRun
    /\ Len(writes) >= 1
    /\ sent = <<no_line>>

-----------------------------------------------------------------------------
(* C26 *)

\* the number of records of the dataset that meet field map f
Matching(f) ==
    IF PeopleRun
    THEN Cardinality({i \in 1..Len(data["people"]) :
             EqMatch(f, data["people"][i]) /\ ThrMatch(f, data["people"][i])})
    ELSE Cardinality({i \in 1..Len(data["groups"]) : ScoreMatch(f, data["groups"][i])})

\* C26: in a counting turn the dataset is filtered and the result rendered
\* only after update has returned True: while update loops and after it
\* returned False there is no filtered list, no count and no result
\* message; after it returned True the list is there, the count is the
\* number of records meeting the field map with this turn's assignments
\* made, and the result message tells that count.
C26_FilterAfterUpdate ==
    (PeopleRun \/ GroupsRun) =>
        /\ (pc = "loop" \/ (Returned /\ ret = False)) =>
               /\ doi = None /\ nop = 0
               /\ \A m \in 1..Len(sent) : sent[m].kind # "result"
        /\ (Returned /\ ret = True /\ raised = None) =>
               /\ doi # None
               /\ \A k \in DOMAIN foi : foi[k] = LastWritten(writes, k, foi[k])
               /\ nop = Matching(foi)
               /\ Kinds(sent) = <<"result">> /\ LastText[2] = ToString(Matching(foi))

\* a turn that narrowed the search to the one female person by the last
\* entity of its stream
C26_Witness ==
    /\ Returned /\ ret = True /\ PeopleRun
    /\ Len(writes) = 1 /\ writes[1].field = "gender" /\ foi.gender = Str("female")
    /\ nop = 1 /\ Len(data["people"]) = 3
    /\ LastText[2] = "1"

-----------------------------------------------------------------------------
(* Runs on persisted slot values of every kind the restore loops tell      *)
(* apart: None, the sentinel "None", a plain value, a list.                *)

\* the list [v] of one value
ListOf(v) == Records(<<v>>)

\* the slot values a run may find
RestoreSlotMaps ==
    {SlotMap(g, b, h, l1, None, sc) :
        g \in {None, Str("None"), Str("male"), ListOf(Str("male"))},
        b \in {None, Str("None"), True, ListOf(True)},
        h \in {None, Str("None"), False},
        l1 \in {None, Str("None"), List(2, TRUE)},
        sc \in {None, Str("None"), List(5, FALSE)}}

InitRestore ==
    /\ NoRun
    /\ other = NoTurn([k \in SlotKeys |-> None])
    /\ slots \in RestoreSlotMaps
    /\ data = Database

\* runs of the three actions on an empty entity stream
NextRestore ==
    \/ BeginCountPeople
    \/ PeopleEndOfStream
    \/ BeginCountGroups
    \/ GroupsEndOfStream
    \/ Submit

SpecRestore == InitRestore /\ [][NextRestore]_vars

\* what the field k is to hold for slot value v
Coerced(k, v) ==
    IF v = Str("None") THEN {None}
    ELSE IF v.tag # "list" THEN {v}
    ELSE IF k \in {"gender", "bag", "hat"} THEN {v.items[1]}
    ELSE {Pair(v.n, v.flag), v}

\* C27: when ActionCountPeople.run, ActionCountGroups.run and
\* ActionSubmit.run load the slot values into the field map, the string
\* "None" becomes None, a list-valued slot of gender, bag or hat becomes its
\* first element, and a list-valued slot of a threshold field becomes the
\* pair of its value and direction.
C27_RestoreCoercion ==
    [][(BeginCountPeople \/ BeginCountGroups \/ Submit) =>
           \A k \in DOMAIN foi' : foi'[k] \in Coerced(k, slots[k])]_vars

-----------------------------------------------------------------------------
(* C30 *)

\* update has finished an iteration of its loop and goes on
IterationDone == pc = "loop" /\ entities # <<>>

\* C30: at the end of every loop iteration of TrackingPeople.update the
\* buffer does not hold both a passages and a line entry, and line_flag is
\* True exactly when it holds a passages or a line entry; at the end of
\* every loop iteration of TrackingGroups.update the buffer holds no mark
\* entry.
C30_OneOpenGroup ==
    IterationDone =>
        /\ PeopleRun =>
               /\ ~(Has(current_group, "passages") /\ Has(current_group, "line"))
               /\ line_flag <=> (Has(current_group, "passages") \/ Has(current_group, "line"))
        /\ GroupsRun => ~Has(current_group, "mark")

\* the iteration that completed a pair flushed it: the field is written, the
\* buffer is empty again
C30_Witness ==
    /\ IterationDone /\ PeopleRun
    /\ Len(entities) = 2
    /\ entities[1].entity = "passages" /\ entities[2].entity = "line"
    /\ Len(writes) = 1
    /\ current_group = <<>> /\ ~line_flag

-----------------------------------------------------------------------------
(* C29 *)

\* es with the entities at i and i + 1 in each other's place
Swap(es, i) ==
    [j \in 1..Len(es) |-> IF j = i THEN es[i + 1] ELSE IF j = i + 1 THEN es[i] ELSE es[j]]

\* es holds at i and i + 1 a parseable quantity and a configured line, in
\* either order
QuantityAndLine(es, i) ==
    \E p \in {i, i + 1} :
        /\ es[p].entity = "passages"
        /\ adverb_to_number(es[p].value).number # None
        /\ es[2 * i + 1 - p].entity = "line"
        /\ LineField(es[2 * i + 1 - p].value) # None

\* a run of ActionCountPeople.run reaches the return of update
PeopleReturns == pc = "loop" /\ pc' = "idle" /\ action = "action_count_people"

\* the streams on which update, reading them one entity at a time, has done
\* what this run did: the entities read, and when update returned False on
\* reading an entity also the entities read followed by any other
StreamsOfRun ==
    IF entities' = entities THEN {entities'}
    ELSE {entities'} \cup {Append(entities', e) : e \in PeopleEntities}

\* update gives on es, with the two entities at i and i + 1 swapped, the
\* result and the field map this run gave
SameWhenSwapped(es, i) ==
    LET o == People_update(Swap(es, i), Prior)
    IN  o.ret = ret' /\ o.foi = foi'

\* C29 as stated: for all entity sequences S1 and S2, every parseable
\* quantity q and configured line l, update gives the same result and the
\* same field map on S1 ++ [passages(q), line(l)] ++ S2 as on
\* S1 ++ [line(l), passages(q)] ++ S2.
C29_AnyContext ==
    [][PeopleReturns =>
           \A es \in StreamsOfRun : \A i \in 1..(Len(es) - 1) :
               QuantityAndLine(es, i) => SameWhenSwapped(es, i)]_vars

\* no line group is open when the i-th entity arrives: the buffer holds
\* neither a passages nor a line entry
NoneOpenAt(i) == arrival'[i] \cap {"passages", "line"} = {}

\* C29 (amended): for all entity sequences S1 that leave no passages and no
\* line entry in the buffer, all S2, every parseable quantity q and
\* configured line l, update gives the same result and the same field map on
\* S1 ++ [passages(q), line(l)] ++ S2 as on S1 ++ [line(l), passages(q)] ++ S2.
C29_OrderOfParts ==
    [][PeopleReturns =>
           \A es \in StreamsOfRun : \A i \in 1..(Len(es) - 1) :
               (QuantityAndLine(es, i) /\ NoneOpenAt(i)) => SameWhenSwapped(es, i)]_vars

\* a negated pair after a resolved clause: "female", "not", "alpha line",
\* "twice" has set line1_passages to (2, False)
C29_Witness ==
    /\ Returned /\ ret = True /\ PeopleRun
    /\ Len(entities) = 4
    /\ entities[1].entity = "gender" /\ entities[2].entity = "negation"
    /\ entities[3].entity = "line" /\ entities[4].entity = "passages"
    /\ arrival[3] = {"negation"}
    /\ foi.line1_passages = Tuple(2, FALSE)

-----------------------------------------------------------------------------
(* Two counting turns processed at the same time *)

TurnEntities == {Ent("negation", "not"), Ent("line", "alpha line"), Ent("mark", "5")}

\* the slot values of the tracker of the second turn
TurnSlotMaps ==
    {[k \in SlotKeys |-> None],
     SlotMap(Str("female"), None, None, List(2, TRUE), None, List(5, TRUE))}

InitTurns ==
    /\ NoRun
    /\ slots = [k \in SlotKeys |-> None]
    /\ data = Database
    /\ other \in {NoTurn(values) : values \in TurnSlotMaps}

\* the steps of the runs of the two turns, in any interleaving
NextTurns ==
    \/ BeginCountPeople
    \/ \E e \in TurnEntities : PeopleReadEntity(e)
    \/ PeopleEndOfStream
    \/ \E a \in {"action_count_people", "action_count_groups"} : OtherBegin(a)
    \/ \E e \in TurnEntities : OtherReadEntity(e)
    \/ OtherEndOfStream

SpecTurns == InitTurns /\ [][NextTurns]_vars

\* C28: when two counting turns are processed in any interleaving, each
\* with its own instance, the result of update, the field map, the count
\* and the messages of each turn are those of the run of that turn alone on
\* the same entity stream, prior slot values and dataset.
C28_TurnsIsolated ==
    [][/\ (pc = "loop" /\ pc' = "idle") =>
              [ret |-> ret', foi |-> foi', nop |-> nop', sent |-> sent']
                  = Run(action, entities', slots)
       /\ (other.pc = "loop" /\ other'.pc = "done") =>
              [ret |-> other'.ret, foi |-> other'.foi, nop |-> other'.nop,
               sent |-> other'.sent]
                  = Run(other.action, other'.entities, other.slots)]_vars

\* both turns have counted, the second having read entities while the first
\* was between two of its own
C28_Witness ==
    /\ Returned /\ ret = True /\ PeopleRun
    /\ other.pc = "done" /\ other.ret = True /\ other.overlap
    /\ Len(entities) >= 2 /\ Len(other.entities) >= 2
    /\ writes # <<>>
    /\ other.foi # [k \in DOMAIN other.foi |-> Restore(other.slots[k])]

-----------------------------------------------------------------------------
\* the fields and values of a sequence of assignments, in order
Commits(ws) == [i \in 1..Len(ws) |-> <<ws[i].field, ws[i].value>>]

\* the step reads an entity of kind k
Reads(k) ==
    /\ pc = "loop"
    /\ Len(entities') = Len(entities) + 1
    /\ entities'[Len(entities')].entity = k

(* C31: a second entity of a kind already buffered closes the open group   *)
(* and reopens with the new entity.  A second passages entity, or a second *)
(* line after a line that is not configured, makes the flush fail with     *)
(* nothing written; a second line after a configured line commits the      *)
(* buffered line as (1, its flag) and leaves the buffer holding the new     *)
(* line alone, negated exactly if a negation was buffered in the closed    *)
(* group.  So [line(a), line(b)] commits a = (1, True) and b = (1, True),  *)
(* and [line(a), negation, line(b)] commits a = (1, True) and              *)
(* b = (1, False).                                                         *)
C31_SecondOfKindReopens ==
    [][PeopleRun =>
        /\ \A k \in {"passages", "line"} :
            (Reads(k) /\ line_flag /\ Has(current_group, k)) =>
                IF k = "line" /\ Configured(Get(current_group, "line").value)
                THEN /\ pc' = "loop"
                     /\ Commits(writes') =
                            Append(Commits(writes),
                                   <<FieldOfLine[Get(current_group, "line").value],
                                     Pair(Num(1), Bool(Get(current_group, "line").neg))>>)
                     /\ line_flag'
                     /\ current_group' =
                            <<Item("line", entities'[Len(entities')].value,
                                   ~Has(current_group, "negation"), Len(entities'))>>
                ELSE /\ pc' = "idle"
                     /\ ret' = False
                     /\ writes' = writes
        /\ \A a, b \in DOMAIN FieldOfLine :
            /\ (pc' = "idle" /\ ret' # None
                    /\ entities' = <<Ent("line", a), Ent("line", b)>>) =>
                   /\ ret' = True
                   /\ Commits(writes') = << <<FieldOfLine[a], Tuple(1, TRUE)>>,
                                            <<FieldOfLine[b], Tuple(1, TRUE)>> >>
            /\ (pc' = "idle" /\ ret' # None
                    /\ entities' = <<Ent("line", a), Ent("negation", "not"),
                                     Ent("line", b)>>) =>
                   /\ ret' = True
                   /\ Commits(writes') = << <<FieldOfLine[a], Tuple(1, TRUE)>>,
                                            <<FieldOfLine[b], Tuple(1, FALSE)>> >>]_vars

C31_Witness ==
    /\ Returned /\ PeopleRun /\ ret = True
    /\ entities = <<Ent("line", "alpha line"), Ent("negation", "not"),
                    Ent("line", "Beta Line")>>
    /\ foi["line1_passages"] = Tuple(1, TRUE)
    /\ foi["line2_passages"] = Tuple(1, FALSE)

-----------------------------------------------------------------------------
\* the items of d that are not the negation, in order
WithoutNegation(d) == SelectSeq(d, LAMBDA it : it.key # "negation")

(* C32: a negation entity arriving while a group is open does not close    *)
(* the group.  Its step flushes nothing and assigns no field: update goes  *)
(* on, the buffered passages or line entry stays as it was and the buffer  *)
(* gains the negation.  The companion entity still completes the group:    *)
(* [passages(q), negation, line(l)] and [line(l), negation, passages(q)]   *)
(* each commit exactly one field, that of line l, as (value(q), False).    *)
C32_NegationKeepsGroupOpen ==
    [][PeopleRun =>
        /\ (Reads("negation") /\ line_flag) =>
                /\ pc' = "loop"
                /\ writes' = writes
                /\ foi' = foi
                /\ sent' = sent
                /\ line_flag'
                /\ WithoutNegation(current_group') = WithoutNegation(current_group)
                /\ WithoutNegation(current_group) # <<>>
                /\ Has(current_group', "negation")
        /\ \A l \in DOMAIN FieldOfLine :
            (/\ pc' = "idle" /\ ret' # None
             /\ \/ entities' = <<Ent("passages", "twice"), Ent("negation", "not"),
                                 Ent("line", l)>>
                \/ entities' = <<Ent("line", l), Ent("negation", "not"),
                                 Ent("passages", "twice")>>) =>
                /\ ret' = True
                /\ Commits(writes') = << <<FieldOfLine[l], Tuple(2, FALSE)>> >>]_vars

C32_Witness ==
    /\ Returned /\ PeopleRun /\ ret = True
    /\ entities = <<Ent("line", "Beta Line"), Ent("negation", "not"),
                    Ent("passages", "twice")>>
    /\ Commits(writes) = << <<"line2_passages", Tuple(2, FALSE)>> >>
    /\ foi["line2_passages"] = Tuple(2, FALSE)

-----------------------------------------------------------------------------
\* what resolving the clothing or gender entity e alone, affirmed, commits
OwnCommit(e) ==
    IF e.entity = "gender" THEN << <<"gender", Str(e.value)>> >>
    ELSE IF e.entity = "clothing" /\ e.value \in {"hat", "bag"} THEN << <<e.value, True>> >>
    ELSE <<>>

(* C33: a clothing or gender entity arriving while a group is open first   *)
(* flushes the open group, then clears the grouping state, then is itself  *)
(* resolved in the same step.  Where the flush fails (no line buffered, or *)
(* a line that is not configured) update returns False with nothing        *)
(* written; otherwise the step commits the buffered line as (1, its flag)  *)
(* and after it the entity's own field, and leaves the buffer empty and    *)
(* the flag down.  After [line(l), clothing(hat)] the field of l is        *)
(* (1, True) and hat is True, the line written before the hat.             *)
C33_OtherEntityFlushesFirst ==
    [][PeopleRun =>
        /\ \A k \in {"clothing", "gender"} :
            (Reads(k) /\ line_flag) =>
                IF Has(current_group, "line")
                       /\ Configured(Get(current_group, "line").value)
                THEN /\ pc' = "loop"
                     /\ Commits(writes') =
                            Append(Commits(writes),
                                   <<FieldOfLine[Get(current_group, "line").value],
                                     Pair(Num(1), Bool(Get(current_group, "line").neg))>>)
                            \o OwnCommit(entities'[Len(entities')])
                     /\ current_group' = <<>>
                     /\ ~line_flag'
                ELSE /\ pc' = "idle"
                     /\ ret' = False
                     /\ writes' = writes
        /\ \A l \in DOMAIN FieldOfLine :
            (pc' = "idle" /\ ret' # None
                /\ entities' = <<Ent("line", l), Ent("clothing", "hat")>>) =>
                    /\ ret' = True
                    /\ Commits(writes') = << <<FieldOfLine[l], Tuple(1, TRUE)>>,
                                             <<"hat", True>> >>
                    /\ foi'[FieldOfLine[l]] = Tuple(1, TRUE)
                    /\ foi'["hat"] = True]_vars

C33_Witness ==
    /\ Returned /\ PeopleRun /\ ret = True
    /\ entities = <<Ent("line", "alpha line"), Ent("clothing", "hat")>>
    /\ Commits(writes) = << <<"line1_passages", Tuple(1, TRUE)>>, <<"hat", True>> >>

-----------------------------------------------------------------------------
(* C34: entities are processed strictly in arrival order with last write   *)
(* winning.  The assignments of one update are made in the order of the    *)
(* stream (every entity of an earlier assignment stands before every       *)
(* entity of a later one), and each field holds the value of the last      *)
(* assignment made to it, or its prior value if there is none; so when     *)
(* several resolved entities or groups target one field, the last of them  *)
(* in the stream decides.  [mark(5), mark(7)] leaves score = (7, True).    *)
C34_LastWriteWins ==
    (PeopleRun \/ GroupsRun) =>
        /\ \A k \in DOMAIN foi : foi[k] = LastWritten(writes, k, Restore(slots[k]))
        /\ \A i, j \in 1..Len(writes) :
               i < j => \A p \in writes[i].parts, q \in writes[j].parts : p < q
        /\ \A i \in 1..Len(writes) :
               writes[i].parts # {} /\ writes[i].parts \subseteq 1..Len(entities)
        /\ (Returned /\ GroupsRun /\ entities = <<Ent("mark", "5"), Ent("mark", "7")>>) =>
               /\ ret = True
               /\ foi["score"] = Tuple(7, TRUE)
        /\ (Returned /\ PeopleRun
                /\ entities = <<Ent("clothing", "hat"), Ent("negation", "not"),
                                Ent("clothing", "hat")>>) =>
               /\ ret = True
               /\ foi["hat"] = False

C34_Witness ==
    /\ Returned /\ GroupsRun /\ ret = True
    /\ entities = <<Ent("mark", "5"), Ent("mark", "7")>>
    /\ Commits(writes) = << <<"score", Tuple(5, TRUE)>>, <<"score", Tuple(7, TRUE)>> >>
    /\ foi["score"] = Tuple(7, TRUE)

-----------------------------------------------------------------------------
\* the step flushes a buffer that holds no line entry: a second passages
\* entity or an entity of another kind than negation arrives while a
\* passages entry is buffered, or the stream ends on a buffer that is not
\* empty
FlushesWithoutLine ==
    /\ pc = "loop" /\ PeopleRun
    /\ ~Has(current_group, "line")
    /\ \/ /\ line_flag
          /\ \E k \in {"passages", "clothing", "gender", "mark"} : Reads(k)
       \/ /\ entities' = entities
          /\ pc' = "idle"
          /\ current_group # <<>>

\* the step ends update with False, assigns no field and sends one message,
\* of the given kind
FailsSaying(kind) ==
    /\ pc' = "idle"
    /\ ret' = False
    /\ writes' = writes
    /\ foi' = foi
    /\ Kinds(sent') = Append(Kinds(sent), kind)

\* C35 as stated: whenever TrackingPeople.update flushes a buffer without a
\* line entry, update returns False, sends the 'point me somewhere' message
\* and writes no field.
C35_NoLineAlwaysPointMe ==
    [][FlushesWithoutLine => FailsSaying("no_line")]_vars

\* C35 (amended): whenever TrackingPeople.update flushes a buffer without a
\* line entry, update returns False, writes no field and sends one message:
\* the 'point me somewhere' message, or, where the buffered passages text is
\* not a valid frequency adverb, the invalid-frequency message in its place.
C35_NoLineFails ==
    [][FlushesWithoutLine =>
        IF Has(current_group, "passages")
               /\ Get(current_group, "passages").value \notin DOMAIN CountOfText
        THEN FailsSaying("frequency")
        ELSE FailsSaying("no_line")]_vars

C35_Witness ==
    /\ Returned /\ PeopleRun /\ ret = False
    /\ entities = <<Ent("passages", "often"), Ent("clothing", "hat")>>
    /\ Kinds(sent) = <<"frequency">>
    /\ writes = <<>>

-----------------------------------------------------------------------------
\* the assignments of the run that store a negated meaning, and the
\* negation entities of its stream
NegatedWrites == {k \in 1..Len(writes) : Negated(writes[k])}
Negations == {i \in 1..Len(entities) : IsKind(i, "negation")}

(* C36: each negation entity negates at most one committed value.  At any  *)
(* point of a TrackingPeople.update or TrackingGroups.update call, the     *)
(* assignments made with negated polarity (False for hat or bag, the       *)
(* swapped gender, direction flag False for a line or the score) are no    *)
(* more than the negation entities read so far.                            *)
C36_OneNegationOneValue ==
    (PeopleRun \/ GroupsRun) => Cardinality(NegatedWrites) <= Cardinality(Negations)

C36_Witness ==
    /\ Returned /\ PeopleRun /\ ret = True
    /\ entities = <<Ent("negation", "not"), Ent("clothing", "hat"),
                    Ent("negation", "not"), Ent("line", "alpha line")>>
    /\ Cardinality(NegatedWrites) = 2
    /\ foi["hat"] = False
    /\ foi["line1_passages"] = Tuple(1, FALSE)

-----------------------------------------------------------------------------
\* u, what a call of update gave, is what the update of the run gave
SameAsRun(u) == u.ret = ret /\ u.foi = foi

(* C37: TrackingPeople.update is idempotent on its stream.  When update    *)
(* has run for a stream on the prior field map, running update for the     *)
(* same stream on the resulting field map returns the same value and       *)
(* leaves the field map as the first run left it, whether the stream       *)
(* succeeds or fails.                                                      *)
C37_UpdateIdempotent ==
    (Returned /\ PeopleRun) => SameAsRun(People_update(entities, foi))

C37_Witness ==
    /\ Returned /\ PeopleRun /\ ret = False
    /\ entities = <<Ent("negation", "not"), Ent("gender", "male"),
                    Ent("passages", "often")>>
    /\ foi["gender"] = Str("female")
    /\ foi["hat"] = True
    /\ People_update(entities, foi).ret = False

-----------------------------------------------------------------------------
\* C38: the two interpreters of clothing and gender agree.  When
\* TrackingPeople.update returns True on a stream, the run persists in
\* gender, bag and hat the values ActionSlotMapping.run (intent other than
\* finding_someone) returns for the same stream and the same prior slot
\* values, also where passages or line entities stand between a negation
\* and the clothing or gender entity.
C38_InterpretersAgree ==
    [][(pc = "loop" /\ pc' = "idle" /\ PeopleRun /\ ret' = True) =>
        \A k \in {"gender", "bag", "hat"} :
            SlotMapping_run("counting_people", entities', slots)[k] = slots'[k]]_vars

-----------------------------------------------------------------------------
\* values the slot last_updated can hold when a turn starts
LastUpdatedValues ==
    {None, Str("zero"), Str("more than one"), Str("wrong entity"), Str("score")}

\* C39: ActionResetOldSlot treats a negated score as one detail.  For a
\* turn whose entities are exactly one negation entity and one mark entity,
\* whatever their values and whatever last_updated holds,
\* ActionResetOldSlot.run returns no event, so it never sets last_updated
\* to "more than one".
C39_NegatedScoreOneDetail ==
    (/\ Returned /\ GroupsRun /\ ret = True
     /\ Len(entities) = 2
     /\ {entities[1].entity, entities[2].entity} = {"negation", "mark"}) =>
        \A v \in LastUpdatedValues : ActionResetOldSlot_run(entities, v) = <<>>

-----------------------------------------------------------------------------
\* C40: a submit always ends the search session.  Every run of
\* ActionSubmit.run, whatever the slot values and however many people
\* match, sends exactly one message and returns AllSlotsReset, so that every
\* slot is None when the next turn starts.
C40_SubmitEndsSession ==
    [][Submit =>
        /\ raised' = None
        /\ Len(sent') = 1
        /\ sent'[1].kind = (IF nop' = 0 THEN "not_found" ELSE "found")
        /\ slots' = [k \in SlotKeys |-> None]]_vars

====
